---- MODULE Spec2Model ----
(***************************************************************************)
(* The PDU loop of the EtherCAT main device: the frame store               *)
(* (pdu_loop/storage.rs), the slot state machine                           *)
(* (pdu_loop/frame_element/*.rs), the TX adapter (pdu_loop/pdu_tx.rs) and  *)
(* the RX adapter (pdu_loop/pdu_rx.rs).                                    *)
(*                                                                         *)
(* Producers, the TX driver and the RX driver run concurrently.  Every     *)
(* action below is one atomic memory operation of the code (a              *)
(* compare_exchange, a store, a fetch_add) together with the thread-local  *)
(* work that surrounds it.                                                 *)
(***************************************************************************)
EXTENDS Integers, Sequences, FiniteSets, TLC

\* ---------------------------------------------------------------- bounds
\* Number of frame slots of the store (const generic N of PduStorage).
NumFrames == 2
\* Threads that call alloc_frame at the same time.
NumProducers == 4
\* Largest retry count of the configuration (RetryBehaviour::retry_count).
MaxRetries == 1
\* Cap of the PDU index counter in the specifications that do not let it wrap.
MaxPushes == 2
\* Cap of the allocation cursor: alloc_frame is called while it is below.
MaxCursor == 2
\* The same in the specification that lets a slot be allocated twice.
MaxReuseCursor == 3
\* Largest retry count in the specification of frames that get no response.
MaxRetriesUnanswered == 2
\* Payload bytes a slot is sized for: DATA = PduStorage::element_size(MaxPayload).
MaxPayload == 0
\* The same, at most, in the specification of the composing calls.
MaxComposePayload == 28
\* Longest data, len_override and slice handed to a push there.
MaxComposeLen == 3
\* Cap of the PDU index counter there.
MaxComposePushes == 4

\* ------------------------------------------------------- program constants
FIRST_PDU_EMPTY == 65280
U8 == 256
PDU_OVERHEAD_BYTES == 12
\* PduHeader::PACKED_LEN: the overhead less the 2 bytes of working counter.
PDU_HEADER_LEN == PDU_OVERHEAD_BYTES - 2
\* EthernetFrame::header_len() and EthercatFrameHeader::header_len().
ETHERNET_HEADER_LEN == 14
ETHERCAT_HEADER_LEN == 2
\* Smallest DATA: the headers and one PDU without payload.
MIN_DATA == 28
\* The EtherType of EtherCAT and the source address the main device sends
\* with, as pdu_rx.rs compares them; the address a response carries after
\* the first sub-device set the U/L bit; the EtherType of other traffic.
ETHERCAT_ETHERTYPE == "0x88a4"
MAINDEVICE_ADDR == "10:10:10:10:10:10"
SUBDEVICE_ADDR == "12:10:10:10:10:10"
OTHER_ETHERTYPE == "0x0800"
\* PduStorage::element_size: DATA for data_len payload bytes.
element_size(data_len) == MIN_DATA + data_len

Slots == 0 .. (NumFrames - 1)
Producers == 1 .. NumProducers
FrameStates ==
    {"None", "Created", "Sendable", "Sending", "Sent", "RxBusy", "RxDone",
     "RxProcessing"}
\* Payload lengths handed to push_pdu.
DataLens == 0 .. MaxPayload
\* Wire indices of PDUs.
Indices == 0 .. (U8 - 1)
\* Contents of a slot's PDU region: zeroed, the PDUs composed by a producer
\* (idx: index of the first one), or a response copied in by the RX driver
\* (idx: index of its first PDU).
Zeroed == [kind |-> "zero", idx |-> 0]

VARIABLES
    status,            \* FrameElement.status, per slot
    first_pdu,         \* FrameElement.first_pdu, per slot
    pdu_payload_len,   \* FrameElement.pdu_payload_len, per slot
    hdr_len,           \* length field of the EtherCAT header in the buffer
    buf,               \* contents of the PDU region of the buffer
    waker,             \* FrameElement.waker holds a registered waker
    frame_idx,         \* PduStorage.frame_idx (allocation cursor)
    pdu_idx,           \* PduStorage.pdu_idx (PDU index counter)
    handle,            \* producer-side handle of a slot
    fut_pc,            \* position of ReceiveFrameFut::poll
    was,               \* state seen by the failed RxDone -> RxProcessing swap
    retries_left,      \* ReceiveFrameFut.retries_left
    timer_expired,     \* ReceiveFrameFut.timeout_timer has fired
    task_woken,        \* the task awaiting the future is scheduled to poll
    retry_count,       \* MainDeviceConfig.retry_behaviour.retry_count()
    hist,              \* per future: timer expirations handled, offers to TX
    poll_result,       \* per slot: what the poll that just returned returned
    tx_waker_woken,    \* the step just taken woke PduStorage.tx_waker
    tx,                \* TX driver: position and claimed slot
    rx,                \* RX driver: position, first PDU index received, slot
    rx_result,         \* what the receive_frame call that just returned returned
    wire,              \* first PDU indices of the responses travelling back
    frame_data_len,    \* PduStorageRef.frame_data_len (const generic DATA)
    is_split,          \* PduStorage.is_split
    pdus,              \* per slot: the PDU headers composed in the PDU region
    pdu_count,         \* CreatedFrame.pdu_count
    last_header_location,  \* CreatedFrame.last_header_location, -1 for None
    ret,               \* what the store or producer call that just returned returned
    exit_flag,         \* PduStorage.exit_flag
    dirty,             \* per slot: offsets of the PDU region the pushes wrote
                       \* since it was last filled with zeros
    fh,                \* an EthercatFrameHeader being packed and unpacked
    subdevices,        \* the SubDevice list configure_dc works on
    esc,               \* the hardware: per device its DC support and the
                       \* receive times its ports latch
    dc,                \* configure_dc: position, device under work, result
    bus,               \* the commands configure_dc has sent, in order
    producers,         \* per producer thread: its position in alloc_frame
    codec              \* a derived wire type: the item, what is written and read
vars ==
    <<status, first_pdu, pdu_payload_len, hdr_len, buf, waker, frame_idx,
      pdu_idx, handle, fut_pc, was, retries_left, timer_expired, task_woken,
      retry_count, hist, poll_result, tx_waker_woken, tx, rx, rx_result,
      wire, frame_data_len, is_split, pdus, pdu_count, last_header_location,
      ret, exit_flag, dirty, fh, subdevices, esc, dc, bus, producers, codec>>

slot_vars ==
    <<status, first_pdu, pdu_payload_len, hdr_len, buf, waker>>
fut_vars ==
    <<fut_pc, was, retries_left, timer_expired, task_woken, hist>>
drv_vars == <<tx, rx, wire>>
\* Set when the store is built, configured and split.
cfg_vars == <<retry_count, frame_data_len, is_split, exit_flag>>
\* The frame being composed.
pdu_vars == <<pdus, pdu_count, last_header_location, dirty>>

\* The PDU loop: the store, its handles, the drivers and the wire.
loop_vars ==
    <<slot_vars, fut_vars, drv_vars, cfg_vars, pdu_vars, frame_idx, pdu_idx,
      handle>>
\* What lives outside the PDU loop; no step of the loop touches it.
dc_vars == <<subdevices, esc, dc, bus>>
\* Threads that allocate concurrently, and the wire codec.
ext_vars == <<producers, codec>>
other_vars == <<fh, dc_vars, ext_vars>>

\* PDU region of a slot (FrameBox::pdu_buf): DATA minus the Ethernet and
\* EtherCAT headers.
PduBufLen == frame_data_len - (ETHERNET_HEADER_LEN + ETHERCAT_HEADER_LEN)

\* poll_result, rx_result, ret and tx_waker_woken describe the step just
\* taken: the value a call returned to its caller, the wake it sent.
NoPoll == [s \in Slots |-> "none"]
NoHist == [expirations |-> 0, offers |-> 0]
NoRet == [op |-> "none", result |-> "none"]
Events(p, r, w, v) ==
    /\ poll_result' = p /\ rx_result' = r /\ tx_waker_woken' = w /\ ret' = v
    /\ UNCHANGED other_vars
\* A step outside the PDU loop: the loop stays as it is and nothing of it
\* returns.
LoopIdle ==
    /\ poll_result' = NoPoll /\ rx_result' = "none" /\ tx_waker_woken' = FALSE
    /\ ret' = NoRet
    /\ UNCHANGED loop_vars
Out(p, r, w) == Events(p, r, w, NoRet)
Returned(v) == Events(NoPoll, "none", FALSE, v)
Quiet == Out(NoPoll, "none", FALSE)
Polled(s, v) == Out([NoPoll EXCEPT ![s] = v], "none", FALSE)
Received(v) == Out(NoPoll, v, FALSE)

\* No frame header at hand.
NoHeader == [op |-> "none"]
NoDc == [pc |-> "none"]
\* A producer thread outside alloc_frame.
NoCall == [pc |-> "idle", left |-> 0, slot |-> 0]
\* No wire type at hand.
NoCodec == [op |-> "none"]

\* ------------------------------------------------------- slot state word
\* FrameElement::swap_state: compare_exchange(from, to).
swap_state(cur, from, to) ==
    IF cur = from THEN [ok |-> TRUE, st |-> to] ELSE [ok |-> FALSE, st |-> cur]

\* FrameElement::set_state: an unconditional store.
set_state(cur, to) == to

\* A comparison of the query with the low byte of the field only.
first_pdu_low_byte_is(raw, search) == search = raw % U8

\* FrameElement::first_pdu_is: the 16-bit comparison against the raw field.
first_pdu_is(raw, search) == search = raw

\* A plain store of the index into the field.
store_first_pdu(raw, value) == value

\* FrameElement::set_first_pdu: compare_exchange(FIRST_PDU_EMPTY, value).
set_first_pdu(raw, value) == IF raw = FIRST_PDU_EMPTY THEN value ELSE raw

\* PduStorageRef::frame_index_by_first_pdu_index: linear scan from slot 0;
\* -1 stands for Option::None.
RECURSIVE scan_first_pdu(_, _, _)
scan_first_pdu(fp, search, i) ==
    IF i >= NumFrames THEN -1
    ELSE IF first_pdu_is(fp[i], search) THEN i
    ELSE scan_first_pdu(fp, search, i + 1)

frame_index_by_first_pdu_index(fp, search) == scan_first_pdu(fp, search, 0)

\* -------------------------------------------------------------- Init
\* PduStorage::new: the slot array is zero-initialised memory, so every
\* field starts at zero; FrameState::None is discriminant 0.
InitPduLoop ==
    /\ status = [s \in Slots |-> "None"]
    /\ pdu_payload_len = [s \in Slots |-> 0]
    /\ hdr_len = [s \in Slots |-> 0]
    /\ buf = [s \in Slots |-> Zeroed]
    /\ waker = [s \in Slots |-> FALSE]
    /\ frame_idx = 0
    /\ pdu_idx = 0
    /\ handle = [s \in Slots |-> "none"]
    /\ fut_pc = [s \in Slots |-> "idle"]
    /\ was = [s \in Slots |-> "None"]
    /\ retries_left = [s \in Slots |-> 0]
    /\ timer_expired = [s \in Slots |-> FALSE]
    /\ task_woken = [s \in Slots |-> FALSE]
    /\ hist = [s \in Slots |-> NoHist]
    /\ poll_result = NoPoll
    /\ tx_waker_woken = FALSE
    /\ tx = [pc |-> "idle", slot |-> 0]
    /\ rx = [pc |-> "idle", slot |-> 0, idx |-> 0]
    /\ rx_result = "none"
    /\ pdus = [s \in Slots |-> << >>]
    /\ pdu_count = [s \in Slots |-> 0]
    /\ last_header_location = [s \in Slots |-> -1]
    /\ ret = NoRet
    /\ exit_flag = FALSE
    /\ dirty = [s \in Slots |-> {}]
    /\ fh = NoHeader
    /\ producers = [p \in Producers |-> NoCall]
    /\ codec = NoCodec

\* No sub-device has been discovered and configure_dc is not running.
InitNoDc ==
    /\ subdevices = <<>>
    /\ esc = <<>>
    /\ dc = NoDc
    /\ bus = <<>>

InitStore == InitPduLoop /\ InitNoDc

\* The store sized for MaxPayload bytes, after try_split handed out its
\* handles.
InitSplit ==
    InitStore /\ frame_data_len = element_size(MaxPayload) /\ is_split = TRUE

\* A new store with nothing on the wire.
InitNew == InitSplit /\ first_pdu = [s \in Slots |-> 0] /\ wire = {}

\* The new store, and a configuration with any retry count up to the bound.
Init == InitNew /\ retry_count \in 0 .. MaxRetries

\* ------------------------------------------------------------ producer
\* PduStorageRef::alloc_frame, the search loop: at most `attempts` times,
\* take the cursor (fetch_add, wrapping u8), reduce it modulo N and try
\* None -> Created on that slot.  slot = -1 stands for Err(SwapState).
\* A search that takes the slot under the cursor whatever its state.
alloc_scan_unchecked(st, cursor, attempts) ==
    [slot |-> cursor % NumFrames, cursor |-> (cursor + 1) % U8]

RECURSIVE alloc_scan(_, _, _)
alloc_scan(st, cursor, attempts) ==
    IF attempts = 0 THEN [slot |-> -1, cursor |-> cursor]
    ELSE LET i == cursor % NumFrames
         IN  IF swap_state(st[i], "None", "Created").ok
             THEN [slot |-> i, cursor |-> (cursor + 1) % U8]
             ELSE alloc_scan(st, (cursor + 1) % U8, attempts - 1)

\* An init that leaves the payload as it is.
payload_kept(bytes) == bytes

\* FrameBox::init, ethernet_frame.payload_mut().fill(0): no byte of the
\* EtherCAT header and the PDU region is left written.
payload_fill_zero(bytes) == {}

\* PduStorageRef::alloc_frame with CreatedFrame::claim_created,
\* FrameElement::claim_created and FrameBox::init.
AllocFrame ==
    /\ LET r == alloc_scan(status, frame_idx, NumFrames * 2)
           i == r.slot
       IN  /\ frame_idx' = r.cursor
           /\ IF i = -1
              THEN /\ Returned([op |-> "alloc_frame",
                                result |-> "Err(SwapState)", slot |-> -1])
                   /\ UNCHANGED <<slot_vars, handle, pdu_vars>>
              ELSE /\ status' = [status EXCEPT ![i] = "Created"]
                   /\ pdu_payload_len' = [pdu_payload_len EXCEPT ![i] = 0]
                   /\ waker' = [waker EXCEPT ![i] = FALSE]
                   /\ first_pdu' = [first_pdu EXCEPT ![i] = FIRST_PDU_EMPTY]
                   /\ hdr_len' = [hdr_len EXCEPT ![i] = 0]
                   /\ buf' = [buf EXCEPT ![i] = Zeroed]
                   /\ pdus' = [pdus EXCEPT ![i] = << >>]
                   /\ dirty' = [dirty EXCEPT ![i] = payload_fill_zero(@)]
                   /\ pdu_count' = [pdu_count EXCEPT ![i] = 0]
                   /\ last_header_location' =
                          [last_header_location EXCEPT ![i] = -1]
                   /\ handle' = [handle EXCEPT ![i] = "created"]
                   /\ Returned([op |-> "alloc_frame", result |-> "Ok",
                                slot |-> i])
    /\ UNCHANGED <<pdu_idx, cfg_vars, fut_vars, drv_vars>>

\* FrameBox::next_pdu_idx: fetch_add on the wrapping u8 counter.
next_pdu_idx(counter) == (counter + 1) % U8

\* PduFlags: the 16-bit flags word of a PDU header, an 11-bit length and
\* the more_follows bit 15.
PduFlags_pack(f) ==
    (f.length % 2048) + (IF f.more_follows THEN 32768 ELSE 0)

PduFlags_unpack(raw) ==
    [length |-> raw % 2048, more_follows |-> (raw \div 32768) % 2 = 1]

\* PduFlags::new(len as u16, more_follows).
PduFlags_new(len, more) == [length |-> len % 65536, more_follows |-> more]

\* The flag update with the length taken from the header that follows.
set_more_follows_from_next(hs, loc) ==
    [k \in DOMAIN hs |->
        IF hs[k].at = loc /\ k < Len(hs)
        THEN [hs[k] EXCEPT !.flags = PduFlags_pack(
                 [PduFlags_unpack(hs[k + 1].flags) EXCEPT !.more_follows = TRUE])]
        ELSE hs[k]]

\* push_pdu and push_pdu_slice_rest, the update of the previous header:
\* unpack the flags word at last_header_location + 6, set more_follows,
\* pack it back.
set_more_follows(hs, loc) ==
    [k \in DOMAIN hs |->
        IF hs[k].at = loc
        THEN [hs[k] EXCEPT !.flags = PduFlags_pack(
                 [PduFlags_unpack(hs[k].flags) EXCEPT !.more_follows = TRUE])]
        ELSE hs[k]]

\* push_pdu: the larger of the data's packed length and len_override
\* (-1 for None).
data_length_usize(packed_len, len_override) ==
    IF len_override = -1 THEN packed_len
    ELSE IF len_override > packed_len THEN len_override ELSE packed_len

\* An add_pdu that counts the payload bytes without the PDU overhead.
add_pdu_len_payload_only(consumed, alloc_size) ==
    consumed + (alloc_size - PDU_OVERHEAD_BYTES)

\* FrameBox::add_pdu, the length: pdu_payload_len += alloc_size.
add_pdu_len(consumed, alloc_size) == consumed + alloc_size

\* The tail shared by push_pdu and push_pdu_slice_rest once the range fits:
\* write the header and after it the data_len bytes of data, FrameBox::add_pdu,
\* count the PDU, flag the previous header.
WritePdu(s, idx, len, alloc_size, data_len) ==
    LET start == pdu_payload_len[s]
        header == [at |-> start, size |-> alloc_size, index |-> idx,
                   flags |-> PduFlags_pack(PduFlags_new(len, FALSE))]
        written == Append(pdus[s], header)
    IN  /\ pdu_payload_len' =
               [pdu_payload_len EXCEPT ![s] = add_pdu_len(start, alloc_size)]
        /\ first_pdu' = [first_pdu EXCEPT ![s] = set_first_pdu(first_pdu[s], idx)]
        /\ buf' = [buf EXCEPT ![s] = IF start = 0
                                     THEN [kind |-> "req", idx |-> idx]
                                     ELSE @]
        /\ pdu_count' = [pdu_count EXCEPT ![s] = (@ + 1) % U8]
        /\ dirty' = [dirty EXCEPT ![s] =
                        @ \cup (start .. (start + PDU_HEADER_LEN + data_len - 1))]
        /\ IF last_header_location[s] # -1
           THEN /\ pdus' = [pdus EXCEPT
                               ![s] = set_more_follows(written,
                                                       last_header_location[s])]
                /\ last_header_location' =
                       [last_header_location EXCEPT ![s] = start]
           ELSE /\ pdus' = [pdus EXCEPT ![s] = written]
                /\ last_header_location' =
                       [last_header_location EXCEPT ![s] = 0]

\* A range check that wants a spare byte after the range.
range_fits_with_spare(start, alloc_size, buf_len) == start + alloc_size < buf_len

\* pdu_buf_mut().get_mut(start..(start + alloc_size)) is Some: the range
\* ends within the region.
range_fits(start, alloc_size, buf_len) == start + alloc_size <= buf_len

\* CreatedFrame::push_pdu with FrameBox::add_pdu, for data of packed_len
\* bytes.  The index is taken from the counter before the range check.
PushPdu(s, packed_len, len_override) ==
    /\ handle[s] = "created"
    /\ LET len == data_length_usize(packed_len, len_override)
           alloc_size == len + PDU_OVERHEAD_BYTES
           start_byte == pdu_payload_len[s]
           idx == pdu_idx
       IN  /\ pdu_idx' = next_pdu_idx(pdu_idx)
           /\ IF ~range_fits(start_byte, alloc_size, PduBufLen)
              THEN /\ Returned([op |-> "push_pdu", result |-> "Err(TooLong)",
                                slot |-> s, data_len |-> packed_len,
                                len_override |-> len_override])
                   /\ UNCHANGED <<pdu_payload_len, first_pdu, buf, pdu_vars>>
              ELSE /\ WritePdu(s, idx, len, alloc_size, packed_len)
                   /\ Returned([op |-> "push_pdu", result |-> "Ok", slot |-> s,
                                data_len |-> packed_len,
                                len_override |-> len_override,
                                index_in_frame |-> pdu_count[s],
                                pdu_idx |-> idx, alloc_size |-> alloc_size])
    /\ UNCHANGED <<status, hdr_len, waker, frame_idx, cfg_vars, handle,
                   fut_vars, drv_vars>>

\* A subtraction that does not stop at zero.
unchecked_sub(a, b) == a - b

\* usize::saturating_sub.
saturating_sub(a, b) == IF a > b THEN a - b ELSE 0

\* CreatedFrame::push_pdu_slice_rest for a slice of n bytes: as many of
\* them as fit after the PDU overhead.
PushPduSliceRest(s, n) ==
    /\ handle[s] = "created"
    /\ LET consumed == pdu_payload_len[s]
           max_bytes == saturating_sub(saturating_sub(PduBufLen, consumed),
                                       PDU_OVERHEAD_BYTES)
           sub_slice_len == IF max_bytes < n THEN max_bytes ELSE n
           alloc_size == sub_slice_len + PDU_OVERHEAD_BYTES
           idx == pdu_idx
       IN  IF n = 0 \/ max_bytes = 0
           THEN /\ Returned([op |-> "push_pdu_slice_rest",
                             result |-> "Ok(None)", slot |-> s, len |-> n])
                /\ UNCHANGED <<pdu_idx, pdu_payload_len, first_pdu, buf, pdu_vars>>
           ELSE /\ pdu_idx' = next_pdu_idx(pdu_idx)
                /\ IF ~range_fits(consumed, alloc_size, PduBufLen)
                   THEN /\ Returned([op |-> "push_pdu_slice_rest",
                                     result |-> "Err(TooLong)", slot |-> s,
                                     len |-> n])
                        /\ UNCHANGED <<pdu_payload_len, first_pdu, buf, pdu_vars>>
                   ELSE /\ WritePdu(s, idx, sub_slice_len, alloc_size, sub_slice_len)
                        /\ Returned([op |-> "push_pdu_slice_rest",
                                     result |-> "Ok(Some)", slot |-> s,
                                     len |-> n, consumed |-> sub_slice_len,
                                     index_in_frame |-> pdu_count[s],
                                     pdu_idx |-> idx,
                                     alloc_size |-> alloc_size])
    /\ UNCHANGED <<status, hdr_len, waker, frame_idx, cfg_vars, handle,
                   fut_vars, drv_vars>>

\* The CreatedFrame value is gone: moved into mark_sendable or dropped.
CreatedGone(s) ==
    /\ pdu_count' = [pdu_count EXCEPT ![s] = 0]
    /\ last_header_location' = [last_header_location EXCEPT ![s] = -1]
    /\ UNCHANGED <<pdus, dirty>>

\* CreatedFrame::mark_sendable, called with the configured retry count:
\* write the EtherCAT header, store Sendable, build the ReceiveFrameFut.
MarkSendable(s) ==
    /\ handle[s] = "created"
    /\ hdr_len' = [hdr_len EXCEPT ![s] = pdu_payload_len[s]]
    /\ status' = [status EXCEPT ![s] = set_state(status[s], "Sendable")]
    /\ handle' = [handle EXCEPT ![s] = "fut"]
    /\ fut_pc' = [fut_pc EXCEPT ![s] = "idle"]
    /\ retries_left' = [retries_left EXCEPT ![s] = retry_count]
    /\ timer_expired' = [timer_expired EXCEPT ![s] = FALSE]
    /\ task_woken' = [task_woken EXCEPT ![s] = TRUE]
    /\ hist' = [hist EXCEPT ![s] = [expirations |-> 0, offers |-> 1]]
    /\ CreatedGone(s)
    /\ Quiet
    /\ UNCHANGED <<first_pdu, pdu_payload_len, buf, waker, frame_idx, pdu_idx,
                   cfg_vars, was, drv_vars>>

\* impl Drop for CreatedFrame: Created -> None by compare_exchange, the
\* failure ignored.
DropCreated(s) ==
    /\ handle[s] = "created"
    /\ status' = [status EXCEPT ![s] = swap_state(status[s], "Created", "None").st]
    /\ handle' = [handle EXCEPT ![s] = "none"]
    /\ CreatedGone(s)
    /\ Returned([op |-> "drop_created", result |-> "none", slot |-> s])
    /\ UNCHANGED <<first_pdu, pdu_payload_len, hdr_len, buf, waker, frame_idx,
                   pdu_idx, cfg_vars, fut_vars, drv_vars>>

\* A split that stores the flag without looking at it.
try_split_store(flag) == [ok |-> TRUE, flag |-> TRUE]

\* PduStorage::try_split, the flag: is_split.compare_exchange(false, true).
try_split(flag) ==
    IF flag = FALSE THEN [ok |-> TRUE, flag |-> TRUE]
    ELSE [ok |-> FALSE, flag |-> flag]

\* PduStorage::try_split: the (PduTx, PduRx, PduLoop) triple, or Err(()).
TrySplit ==
    /\ LET r == try_split(is_split)
       IN  /\ is_split' = r.flag
           /\ Returned([op |-> "try_split",
                        result |-> IF r.ok THEN "Ok" ELSE "Err"])
    /\ UNCHANGED <<slot_vars, frame_idx, pdu_idx, handle, retry_count,
                   frame_data_len, exit_flag, pdu_vars, fut_vars, drv_vars>>

\* core::mem::forget of a CreatedFrame: the value is gone, its destructor
\* never runs, the slot stays as it is.
ForgetCreated(s) ==
    /\ handle[s] = "created"
    /\ handle' = [handle EXCEPT ![s] = "none"]
    /\ CreatedGone(s)
    /\ Quiet
    /\ UNCHANGED <<slot_vars, frame_idx, pdu_idx, cfg_vars, fut_vars, drv_vars>>

\* PduStorageRef::reset, called by MainDevice::release once the main device
\* and with it every frame handle and future is gone: both cursors to
\* zero, every slot to None; wakers and buffers are left alone.
Reset ==
    /\ \A s \in Slots : handle[s] = "none"
    /\ frame_idx' = 0
    /\ pdu_idx' = 0
    /\ status' = [s \in Slots |-> set_state(status[s], "None")]
    /\ Returned([op |-> "reset", result |-> "none"])
    /\ UNCHANGED <<first_pdu, pdu_payload_len, hdr_len, buf, waker, handle,
                   cfg_vars, pdu_vars, fut_vars, drv_vars>>

\* MainDevice::release_all: PduLoop::reset_all, then PduLoop::wake_sender.
\* The store is reset as by release, the exit flag is set for the TX and
\* RX handles to see, and the TX waker is woken.
ReleaseAll ==
    /\ \A s \in Slots : handle[s] = "none"
    /\ frame_idx' = 0
    /\ pdu_idx' = 0
    /\ status' = [s \in Slots |-> set_state(status[s], "None")]
    /\ exit_flag' = TRUE
    /\ Events(NoPoll, "none", TRUE, [op |-> "release_all", result |-> "none"])
    /\ UNCHANGED <<first_pdu, pdu_payload_len, hdr_len, buf, waker, handle,
                   retry_count, frame_data_len, is_split, pdu_vars, fut_vars,
                   drv_vars>>

\* ------------------------------------------------------ response future
\* The states in which ReceiveFrameFut::poll keeps waiting.
InFlight == {"Sendable", "Sending", "Sent", "RxBusy"}

\* The future of slot s is gone (completed or dropped) and its fields with
\* it; h is the handle left to the caller.  A ReceivedFrame remembers
\* whether the timer had fired when the poll returned it.
FutureGone(s, h) ==
    /\ handle' = [handle EXCEPT ![s] = h]
    /\ fut_pc' = [fut_pc EXCEPT ![s] = "idle"]
    /\ was' = [was EXCEPT ![s] = "None"]
    /\ retries_left' = [retries_left EXCEPT ![s] = 0]
    /\ timer_expired' =
           [timer_expired EXCEPT ![s] = IF h = "received" THEN @ ELSE FALSE]
    /\ task_woken' = [task_woken EXCEPT ![s] = FALSE]
    /\ hist' = [hist EXCEPT ![s] = NoHist]

\* A poll that goes on to check the state without registering its waker.
PollWithoutWaker(s) ==
    /\ handle[s] = "fut"
    /\ fut_pc[s] = "idle"
    /\ task_woken' = [task_woken EXCEPT ![s] = FALSE]
    /\ fut_pc' = [fut_pc EXCEPT ![s] = "registered"]
    /\ Quiet
    /\ UNCHANGED <<slot_vars, frame_idx, pdu_idx, cfg_vars, pdu_vars, handle, was,
                   retries_left, timer_expired, hist, drv_vars>>

\* ReceiveFrameFut::poll, first part: take the frame out of the future and
\* register the task's waker in the slot (FrameBox::replace_waker).
PollRegister(s) ==
    /\ handle[s] = "fut"
    /\ fut_pc[s] = "idle"
    /\ waker' = [waker EXCEPT ![s] = TRUE]
    /\ task_woken' = [task_woken EXCEPT ![s] = FALSE]
    /\ fut_pc' = [fut_pc EXCEPT ![s] = "registered"]
    /\ Quiet
    /\ UNCHANGED <<status, first_pdu, pdu_payload_len, hdr_len, buf,
                   frame_idx, pdu_idx, cfg_vars, pdu_vars, handle, was, retries_left,
                   timer_expired, hist, drv_vars>>

\* A timeout branch that gives up one retry early.
one_retry_left(retries) == retries <= 1

\* The test `self.retries_left == 0` of the timeout branch.
no_retries_left(retries) == retries = 0

\* ReceiveFrameFut::poll, the final match on the state the failed swap saw:
\* Pending while the frame is in flight, else Err(InvalidFrameState) and
\* the frame handle is dropped with the slot left as it is.
PollFinish(s, seen, retried) ==
    IF seen \in InFlight
    THEN /\ Out([NoPoll EXCEPT ![s] = "Pending"], "none", retried)
         /\ fut_pc' = [fut_pc EXCEPT ![s] = "idle"]
         /\ was' = [was EXCEPT ![s] = "None"]
         /\ timer_expired' = [timer_expired EXCEPT ![s] = FALSE]
         /\ retries_left' =
                [retries_left EXCEPT ![s] = IF retried THEN @ - 1 ELSE @]
         /\ hist' = [hist EXCEPT
                        ![s] = IF retried
                               THEN [expirations |-> @.expirations + 1,
                                     offers |-> @.offers + 1]
                               ELSE @]
         /\ UNCHANGED <<handle, task_woken>>
    ELSE /\ Out([NoPoll EXCEPT ![s] = "InvalidFrameState"], "none", retried)
         /\ FutureGone(s, "none")

\* A poll that looks at the timeout timer before it tries the swap.
PollTimerFirst(s) ==
    /\ handle[s] = "fut"
    /\ fut_pc[s] = "registered"
    /\ LET r == swap_state(status[s], "RxDone", "RxProcessing")
       IN  IF timer_expired[s]
           THEN /\ was' = [was EXCEPT ![s] = status[s]]
                /\ fut_pc' = [fut_pc EXCEPT ![s] = "timer"]
                /\ Quiet
                /\ UNCHANGED <<status, handle, retries_left, timer_expired,
                               task_woken, hist>>
           ELSE IF r.ok
           THEN /\ status' = [status EXCEPT ![s] = r.st]
                /\ FutureGone(s, "received")
                /\ Polled(s, "Ready")
           ELSE /\ PollFinish(s, r.st, FALSE)
                /\ UNCHANGED status
    /\ UNCHANGED <<first_pdu, pdu_payload_len, hdr_len, buf, waker, frame_idx,
                   pdu_idx, cfg_vars, pdu_vars, drv_vars>>

\* ReceiveFrameFut::poll, second part: RxDone -> RxProcessing by
\* compare_exchange; on success the poll returns the ReceivedFrame.  On
\* failure it keeps the state it saw and polls the timeout timer: if that
\* has not fired the poll ends with the final match, else it goes on to
\* the timeout branch.
PollSwap(s) ==
    /\ handle[s] = "fut"
    /\ fut_pc[s] = "registered"
    /\ LET r == swap_state(status[s], "RxDone", "RxProcessing")
       IN  IF r.ok
           THEN /\ status' = [status EXCEPT ![s] = r.st]
                /\ FutureGone(s, "received")
                /\ Polled(s, "Ready")
           ELSE IF timer_expired[s]
           THEN /\ was' = [was EXCEPT ![s] = r.st]
                /\ fut_pc' = [fut_pc EXCEPT ![s] = "timer"]
                /\ Quiet
                /\ UNCHANGED <<status, handle, retries_left, timer_expired,
                               task_woken, hist>>
           ELSE /\ PollFinish(s, r.st, FALSE)
                /\ UNCHANGED status
    /\ UNCHANGED <<first_pdu, pdu_payload_len, hdr_len, buf, waker, frame_idx,
                   pdu_idx, cfg_vars, pdu_vars, drv_vars>>

\* ReceiveFrameFut::poll, the timeout branch: with no retries left release
\* the frame (store None) and return Err(Timeout); else start a new timer,
\* store Sendable, wake the TX driver, count the retry down and end with
\* the final match.
PollTimeout(s) ==
    /\ handle[s] = "fut"
    /\ fut_pc[s] = "timer"
    /\ IF no_retries_left(retries_left[s])
       THEN /\ status' = [status EXCEPT ![s] = set_state(status[s], "None")]
            /\ FutureGone(s, "none")
            /\ Polled(s, "Timeout")
       ELSE /\ status' = [status EXCEPT ![s] = set_state(status[s], "Sendable")]
            /\ PollFinish(s, was[s], TRUE)
    /\ UNCHANGED <<first_pdu, pdu_payload_len, hdr_len, buf, waker, frame_idx,
                   pdu_idx, cfg_vars, pdu_vars, drv_vars>>

\* The timeout timer of a pending future fires and wakes its task.
TimerExpire(s) ==
    /\ handle[s] = "fut"
    /\ fut_pc[s] # "timer"
    /\ ~timer_expired[s]
    /\ timer_expired' = [timer_expired EXCEPT ![s] = TRUE]
    /\ task_woken' = [task_woken EXCEPT ![s] = TRUE]
    /\ Quiet
    /\ UNCHANGED <<slot_vars, frame_idx, pdu_idx, cfg_vars, pdu_vars, handle, fut_pc,
                   was, retries_left, hist, drv_vars>>

\* impl Drop for ReceiveFrameFut with ReceiveFrameFut::release: the frame is
\* still in the future, the slot is stored None.
DropFut(s) ==
    /\ handle[s] = "fut"
    /\ fut_pc[s] = "idle"
    /\ status' = [status EXCEPT ![s] = set_state(status[s], "None")]
    /\ FutureGone(s, "none")
    /\ Quiet
    /\ UNCHANGED <<first_pdu, pdu_payload_len, hdr_len, buf, waker, frame_idx,
                   pdu_idx, cfg_vars, pdu_vars, drv_vars>>

\* Drop of the ReceivedFrame a completed poll returned: the slot goes back
\* to None.
DropReceived(s) ==
    /\ handle[s] = "received"
    /\ status' = [status EXCEPT ![s] = "None"]
    /\ handle' = [handle EXCEPT ![s] = "none"]
    /\ timer_expired' = [timer_expired EXCEPT ![s] = FALSE]
    /\ Quiet
    /\ UNCHANGED <<first_pdu, pdu_payload_len, hdr_len, buf, waker, frame_idx,
                   pdu_idx, cfg_vars, pdu_vars, fut_pc, was, retries_left, task_woken,
                   hist, drv_vars>>

\* ------------------------------------------------------------ TX driver
\* An exit check that never sees the flag.
never_exit(flag) == FALSE

\* PduTx::should_exit and PduRx::should_exit: a load of the exit flag.
should_exit(flag) == flag

\* PduTx::next_sendable_frame: the first slot, from slot 0, whose
\* Sendable -> Sending compare_exchange succeeds, the exit flag checked
\* before each slot; -1 stands for None.
RECURSIVE next_sendable_frame(_, _, _)
next_sendable_frame(st, exit, i) ==
    IF i >= NumFrames THEN -1
    ELSE IF should_exit(exit) THEN -1
    ELSE IF swap_state(st[i], "Sendable", "Sending").ok THEN i
    ELSE next_sendable_frame(st, exit, i + 1)

\* PduTx::next_sendable_frame returns None: the exit flag is set or no slot
\* is Sendable.  Nothing is claimed.
TxNone ==
    /\ tx.pc = "idle"
    /\ next_sendable_frame(status, exit_flag, 0) = -1
    /\ Returned([op |-> "next_sendable_frame", result |-> "None"])
    /\ UNCHANGED <<slot_vars, frame_idx, pdu_idx, cfg_vars, pdu_vars, handle,
                   fut_vars, drv_vars>>

\* PduTx::release: the exit flag is stored false.  The handle is consumed
\* and handed back, which no frame it gave out prevents.
TxRelease ==
    /\ exit_flag' = FALSE
    /\ Returned([op |-> "PduTx::release", result |-> "none"])
    /\ UNCHANGED <<slot_vars, frame_idx, pdu_idx, retry_count, frame_data_len,
                   is_split, pdu_vars, handle, fut_vars, drv_vars>>

\* The TX driver runs and claims the next sendable frame
\* (SendableFrame::claim_sending).
TxClaim ==
    /\ tx.pc = "idle"
    /\ LET i == next_sendable_frame(status, exit_flag, 0)
       IN  /\ i # -1
           /\ status' = [status EXCEPT ![i] = "Sending"]
           /\ tx' = [pc |-> "sending", slot |-> i]
    /\ Quiet
    /\ UNCHANGED <<first_pdu, pdu_payload_len, hdr_len, buf, waker, frame_idx,
                   pdu_idx, cfg_vars, pdu_vars, handle, fut_vars, rx, wire>>

\* The responses a transmission of slot s's buffer brings back: none when
\* the EtherCAT header carries length 0 or the PDU region holds no PDU,
\* else one with the first PDU index found in the buffer.
responses(s) ==
    IF hdr_len[s] = 0 \/ buf[s].kind = "zero" THEN {} ELSE {buf[s].idx}

\* SendableFrame::len: the Ethernet frame up to the end of the PDUs.
frame_len(s) == ETHERNET_HEADER_LEN + ETHERCAT_HEADER_LEN + pdu_payload_len[s]

\* The byte counts a network driver reports for a frame of len bytes: all
\* of it, or less.
DriverCounts(len) == {len - 1, len}

\* A test that takes any bytes sent for the whole frame.
sent_any(bytes_sent, len) == bytes_sent > 0

\* send_blocking, the match guard: bytes_sent == len.
fully_sent(bytes_sent, len) == bytes_sent = len

\* SendableFrame::send_blocking, the driver sent the whole frame:
\* SendableFrame::mark_sent stores Sent.  The frame's response is then on
\* its way back.
TxSendOk ==
    /\ tx.pc = "sending"
    /\ \E n \in DriverCounts(frame_len(tx.slot)) :
          /\ fully_sent(n, frame_len(tx.slot))
          /\ Returned([op |-> "send_blocking", slot |-> tx.slot,
                       driver |-> "Ok", bytes_sent |-> n, result |-> "Ok",
                       len |-> frame_len(tx.slot), sent |-> n])
    /\ status' = [status EXCEPT ![tx.slot] = set_state(status[tx.slot], "Sent")]
    /\ wire' = wire \cup responses(tx.slot)
    /\ tx' = [pc |-> "idle", slot |-> 0]
    /\ UNCHANGED <<first_pdu, pdu_payload_len, hdr_len, buf, waker, frame_idx,
                   pdu_idx, cfg_vars, pdu_vars, handle, fut_vars, rx>>

\* SendableFrame::send_blocking, the driver sent another number of bytes:
\* SendableFrame::release_sending_claim stores Sendable, the call returns
\* Err(PartialSend { len, sent }).
TxSendPartial ==
    /\ tx.pc = "sending"
    /\ \E n \in DriverCounts(frame_len(tx.slot)) :
          /\ ~fully_sent(n, frame_len(tx.slot))
          /\ Returned([op |-> "send_blocking", slot |-> tx.slot,
                       driver |-> "Ok", bytes_sent |-> n,
                       result |-> "Err(PartialSend)",
                       len |-> frame_len(tx.slot), sent |-> n])
    /\ status' =
           [status EXCEPT ![tx.slot] = set_state(status[tx.slot], "Sendable")]
    /\ tx' = [pc |-> "idle", slot |-> 0]
    /\ UNCHANGED <<first_pdu, pdu_payload_len, hdr_len, buf, waker, frame_idx,
                   pdu_idx, cfg_vars, pdu_vars, handle, fut_vars, rx, wire>>

\* SendableFrame::send_blocking, the driver returned an error:
\* SendableFrame::release_sending_claim stores Sendable, the error is
\* returned as it is.
TxSendFail ==
    /\ tx.pc = "sending"
    /\ status' =
           [status EXCEPT ![tx.slot] = set_state(status[tx.slot], "Sendable")]
    /\ tx' = [pc |-> "idle", slot |-> 0]
    /\ Returned([op |-> "send_blocking", slot |-> tx.slot, driver |-> "Err",
                 bytes_sent |-> 0, result |-> "Err(driver)",
                 len |-> frame_len(tx.slot), sent |-> 0])
    /\ UNCHANGED <<first_pdu, pdu_payload_len, hdr_len, buf, waker, frame_idx,
                   pdu_idx, cfg_vars, pdu_vars, handle, fut_vars, rx, wire>>

\* ------------------------------------------------------------ RX driver
RxIdle == [pc |-> "idle", slot |-> 0, idx |-> 0]

\* A filter that looks at the EtherType only.
is_foreign_ethertype_only(ethertype, src_addr, source_mac) ==
    ethertype # ETHERCAT_ETHERTYPE

\* PduRx::receive_frame, the filter: not EtherCAT, or sent by the main
\* device itself.
is_foreign(ethertype, src_addr, source_mac) ==
    ethertype # ETHERCAT_ETHERTYPE \/ src_addr = source_mac

\* The response to a frame whose first PDU has index idx, as it comes back
\* from the sub-devices.
Response(idx) ==
    [ethertype |-> ETHERCAT_ETHERTYPE, src_addr |-> SUBDEVICE_ADDR, idx |-> idx]

\* receive_frame was called with the frame f; v is what it returned, "none"
\* while it is still running.
ReceiveCalled(f, v) ==
    Events(NoPoll, v, FALSE, [op |-> "receive_frame", result |-> v, frame |-> f])

\* PduRx::receive_frame on the Ethernet frame f, up to the lookup: Ignored
\* when the exit flag is set and when the filter rejects the frame; else
\* the first PDU index is read and the slot is searched by it.
ReceiveFrame(f) ==
    /\ rx.pc = "idle"
    /\ IF should_exit(exit_flag)
           \/ is_foreign(f.ethertype, f.src_addr, MAINDEVICE_ADDR)
       THEN /\ ReceiveCalled(f, "Ignored")
            /\ UNCHANGED rx
       ELSE LET i == frame_index_by_first_pdu_index(first_pdu, f.idx)
            IN  IF i = -1
                THEN /\ ReceiveCalled(f, "Err(Decode)")
                     /\ UNCHANGED rx
                ELSE /\ ReceiveCalled(f, "none")
                     /\ rx' = [pc |-> "claim", slot |-> i, idx |-> f.idx]
    /\ UNCHANGED <<slot_vars, frame_idx, pdu_idx, cfg_vars, pdu_vars, handle,
                   fut_vars, tx>>

\* A response arrives and is handed to receive_frame.
RxLookup(idx) ==
    /\ idx \in wire
    /\ wire' = wire \ {idx}
    /\ ReceiveFrame(Response(idx))

\* Any other frame the network interface picks up is handed to
\* receive_frame: other traffic, and the main device's own frames coming
\* back through a switch.
RxOther(f) ==
    /\ UNCHANGED wire
    /\ ReceiveFrame(f)

\* PduRx::release: the exit flag is stored false.  The handle is consumed,
\* so no receive_frame call is running.
RxRelease ==
    /\ rx.pc = "idle"
    /\ exit_flag' = FALSE
    /\ Returned([op |-> "PduRx::release", result |-> "none"])
    /\ UNCHANGED <<slot_vars, frame_idx, pdu_idx, retry_count, frame_data_len,
                   is_split, pdu_vars, handle, fut_vars, drv_vars>>

\* PduStorageRef::claim_receiving with FrameElement::claim_receiving:
\* Sent -> RxBusy by compare_exchange; on failure receive_frame returns
\* Err(InvalidIndex).
RxClaim ==
    /\ rx.pc = "claim"
    /\ LET r == swap_state(status[rx.slot], "Sent", "RxBusy")
       IN  IF r.ok
           THEN /\ status' = [status EXCEPT ![rx.slot] = r.st]
                /\ rx' = [rx EXCEPT !.pc = "copy"]
                /\ Quiet
           ELSE /\ Received("Err(InvalidIndex)")
                /\ rx' = RxIdle
                /\ UNCHANGED status
    /\ UNCHANGED <<first_pdu, pdu_payload_len, hdr_len, buf, waker, frame_idx,
                   pdu_idx, cfg_vars, pdu_vars, handle, fut_vars, tx, wire>>

\* PduRx::receive_frame, the copy of the received PDU region into the
\* slot's buffer, then ReceivingFrame::mark_received, the state:
\* RxBusy -> RxDone by compare_exchange; on failure receive_frame returns
\* Err(InvalidFrameState).  While rx.pc = "copy" the RX driver is writing
\* the buffer.
RxMarkReceived ==
    /\ rx.pc = "copy"
    /\ buf' = [buf EXCEPT ![rx.slot] = [kind |-> "resp", idx |-> rx.idx]]
    /\ pdus' = [pdus EXCEPT ![rx.slot] = << >>]
    /\ UNCHANGED <<pdu_count, last_header_location, dirty>>
    /\ LET r == swap_state(status[rx.slot], "RxBusy", "RxDone")
       IN  IF r.ok
           THEN /\ status' = [status EXCEPT ![rx.slot] = r.st]
                /\ rx' = [rx EXCEPT !.pc = "wake"]
                /\ Quiet
           ELSE /\ Received("Err(InvalidFrameState)")
                /\ rx' = RxIdle
                /\ UNCHANGED status
    /\ UNCHANGED <<first_pdu, pdu_payload_len, hdr_len, waker, frame_idx,
                   pdu_idx, cfg_vars, handle, fut_vars, tx, wire>>

\* ReceivingFrame::mark_received, the wake (FrameBox::wake): the registered
\* waker, if any, is taken and woken; receive_frame returns Processed.
RxWake ==
    /\ rx.pc = "wake"
    /\ waker' = [waker EXCEPT ![rx.slot] = FALSE]
    /\ task_woken' =
           [task_woken EXCEPT ![rx.slot] = IF waker[rx.slot] THEN TRUE ELSE @]
    /\ rx' = RxIdle
    /\ Received("Processed")
    /\ UNCHANGED <<status, first_pdu, pdu_payload_len, hdr_len, buf,
                   frame_idx, pdu_idx, cfg_vars, pdu_vars, handle, fut_pc, was,
                   retries_left, timer_expired, hist, tx, wire>>

\* ------------------------------------------------------- specification
\* alloc_frame is called while the cursor is below `limit`.
Allocate(limit) == frame_idx < limit /\ AllocFrame

Compose ==
    \/ \E s \in Slots, len \in DataLens : pdu_idx < MaxPushes /\ PushPdu(s, len, -1)
    \/ \E s \in Slots : MarkSendable(s)
    \/ \E s \in Slots : DropCreated(s)

Future ==
    \/ \E s \in Slots : PollRegister(s)
    \/ \E s \in Slots : PollSwap(s)
    \/ \E s \in Slots : PollTimeout(s)
    \/ \E s \in Slots : TimerExpire(s)
    \/ \E s \in Slots : DropFut(s)
    \/ \E s \in Slots : DropReceived(s)

TxDriver == TxClaim \/ TxSendOk \/ TxSendPartial \/ TxSendFail

RxDriver ==
    \/ \E idx \in Indices : RxLookup(idx)
    \/ RxClaim
    \/ RxMarkReceived
    \/ RxWake

\* Producers, futures and both drivers, with every configured retry count.
Next == Allocate(MaxCursor) \/ Compose \/ Future \/ TxDriver \/ RxDriver

Spec == Init /\ [][Next]_vars

\* The same without retries and with one more allocation, so that a slot
\* is allocated a second time.
InitReuse == InitNew /\ retry_count = 0

NextReuse == Allocate(MaxReuseCursor) \/ Compose \/ Future \/ TxDriver \/ RxDriver

SpecReuse == InitReuse /\ [][NextReuse]_vars

\* Frames to which no response ever arrives: the RX driver never runs.
InitRetry == InitNew /\ retry_count \in 0 .. MaxRetriesUnanswered

NextRetry ==
    \/ Allocate(MaxCursor)
    \/ Compose
    \/ \E s \in Slots : PollRegister(s)
    \/ \E s \in Slots : PollSwap(s)
    \/ \E s \in Slots : PollTimeout(s)
    \/ \E s \in Slots : TimerExpire(s)
    \/ \E s \in Slots : DropFut(s)
    \/ TxDriver

SpecRetry == InitRetry /\ [][NextRetry]_vars

\* One producer composing frame after frame, pushing as often as it likes,
\* with nothing sent or received: the PDU index counter wraps.
InitWrap == InitNew /\ retry_count = 0

NextWrap ==
    \/ (\A s \in Slots : handle[s] # "created") /\ Allocate(MaxCursor)
    \/ \E s \in Slots, len \in DataLens : PushPdu(s, len, -1)
    \/ \E s \in Slots : MarkSendable(s)

SpecWrap == InitWrap /\ [][NextWrap]_vars

\* The lookup alone: idle slots whose first_pdu fields hold the sentinel or
\* the indices of earlier frames, and received frames carrying any of the
\* queried indices.
LookupFields == {0, 123, 255, FIRST_PDU_EMPTY}
LookupQueries == {0, 123, 255}

InitLookup ==
    /\ InitSplit
    /\ first_pdu \in [Slots -> LookupFields]
    /\ wire \in SUBSET LookupQueries
    /\ retry_count = 0

NextLookup ==
    \/ \E idx \in Indices : RxLookup(idx)
    \/ RxClaim

SpecLookup == InitLookup /\ [][NextLookup]_vars


\* A main device that is released and replaced: frames that get no
\* response, the TX driver running on, and reset once no handle is left.
InitReset == InitNew /\ retry_count = 0

NextReset ==
    \/ Allocate(MaxReuseCursor)
    \/ Compose
    \/ \E s \in Slots : ForgetCreated(s)
    \/ \E s \in Slots : PollRegister(s)
    \/ \E s \in Slots : PollSwap(s)
    \/ \E s \in Slots : PollTimeout(s)
    \/ \E s \in Slots : TimerExpire(s)
    \/ TxDriver
    \/ Reset

SpecReset == InitReset /\ [][NextReset]_vars

\* The store from construction on: try_split called at any time, by
\* anyone, and the producers and the TX driver at work once the handles
\* exist.
InitUnsplit ==
    /\ InitStore
    /\ frame_data_len = element_size(MaxPayload)
    /\ is_split = FALSE
    /\ first_pdu = [s \in Slots |-> 0]
    /\ wire = {}
    /\ retry_count = 0

NextSplit ==
    \/ TrySplit
    \/ is_split /\ Allocate(MaxCursor)
    \/ is_split /\ Compose
    \/ is_split /\ TxDriver

SpecSplit == InitUnsplit /\ [][NextSplit]_vars

\* The first frame of a new store, composed with push_pdu and
\* push_pdu_slice_rest in any order, in slots of every size up to the
\* bound, until it is marked sendable or dropped.
ComposePayloads == 0 .. MaxComposePayload
ComposeLens == 0 .. MaxComposeLen
Overrides == {-1} \cup ComposeLens

InitCompose ==
    /\ InitStore
    /\ frame_data_len \in {element_size(c) : c \in ComposePayloads}
    /\ is_split = TRUE
    /\ first_pdu = [s \in Slots |-> 0]
    /\ wire = {}
    /\ retry_count = 0

NextCompose ==
    \/ frame_idx = 0 /\ AllocFrame
    \/ \E s \in Slots, d \in ComposeLens, o \in Overrides :
          pdu_idx < MaxComposePushes /\ PushPdu(s, d, o)
    \/ \E s \in Slots, n \in ComposeLens :
          pdu_idx < MaxComposePushes /\ PushPduSliceRest(s, n)
    \/ \E s \in Slots : MarkSendable(s)
    \/ \E s \in Slots : DropCreated(s)

SpecCompose == InitCompose /\ [][NextCompose]_vars

\* Shutdown: the main device is released with release_all at any time it
\* holds no frame, another one may take over the store, and the TX and RX
\* handles are released whenever their owners get to it.  The network
\* delivers responses and any other frame.
OtherFrames ==
    [ethertype : {ETHERCAT_ETHERTYPE, OTHER_ETHERTYPE},
     src_addr : {MAINDEVICE_ADDR, SUBDEVICE_ADDR},
     idx : {0, 1}]

InitShutdown == InitNew /\ retry_count = 0

NextShutdown ==
    \/ Allocate(MaxCursor)
    \/ \E s \in Slots, len \in DataLens : pdu_idx < MaxPushes /\ PushPdu(s, len, -1)
    \/ \E s \in Slots : MarkSendable(s)
    \/ \E s \in Slots : DropFut(s)
    \/ TxClaim
    \/ TxSendOk
    \/ TxNone
    \/ TxRelease
    \/ \E f \in OtherFrames : RxOther(f)
    \/ RxClaim
    \/ RxMarkReceived
    \/ RxWake
    \/ RxRelease
    \/ ReleaseAll

SpecShutdown == InitShutdown /\ [][NextShutdown]_vars

\* One producer that composes a frame, gives it up (dropped as it is, or
\* marked sendable and its future dropped) and allocates again until a
\* slot is in use for the second time, as the test zeroed_data does.  The
\* slots hold one PDU of up to MaxComposeLen bytes.
InitZeroed ==
    /\ InitStore
    /\ frame_data_len = element_size(MaxComposeLen)
    /\ is_split = TRUE
    /\ first_pdu = [s \in Slots |-> 0]
    /\ wire = {}
    /\ retry_count = 0

NextZeroed ==
    \/ Allocate(MaxReuseCursor)
    \/ \E s \in Slots, d \in ComposeLens, o \in Overrides :
          pdu_idx < MaxPushes /\ PushPdu(s, d, o)
    \/ \E s \in Slots : MarkSendable(s)
    \/ \E s \in Slots : DropCreated(s)
    \/ \E s \in Slots : DropFut(s)

SpecZeroed == InitZeroed /\ [][NextZeroed]_vars

\* ------------------------------------------------- EtherCAT frame header
\* The operators & and | on u16 values.
RECURSIVE bit_and(_, _)
bit_and(a, b) ==
    IF a = 0 \/ b = 0 THEN 0
    ELSE (a % 2) * (b % 2) + 2 * bit_and(a \div 2, b \div 2)

RECURSIVE bit_or(_, _)
bit_or(a, b) ==
    IF a = 0 THEN b
    ELSE IF b = 0 THEN a
    ELSE (IF a % 2 = 1 \/ b % 2 = 1 THEN 1 ELSE 0)
         + 2 * bit_or(a \div 2, b \div 2)

\* crate::LEN_MASK: the 11 bits of the length.
LEN_MASK == 2047
\* ProtocolType::DlPdu.
DlPdu == 1
U16 == 65536

\* u16 to and from its two little-endian bytes.
u16_pack(raw) == <<raw % U8, raw \div U8>>
u16_unpack(bytes) == bytes[1] + U8 * bytes[2]

\* EthercatFrameHeader::pdu.
EthercatFrameHeader_pdu(len) ==
    [payload_len |-> bit_and(len, LEN_MASK), protocol |-> DlPdu]

\* A header word with the protocol one bit lower.
header_word_shift_11(h) == bit_or(h.payload_len, (h.protocol * 2048) % U16)

\* pack_to_slice_unchecked, the word: payload_len | (protocol as u16) << 12.
header_word(h) == bit_or(h.payload_len, (h.protocol * 4096) % U16)

\* EthercatFrameHeader::pack_to_slice_unchecked.
EthercatFrameHeader_pack(h) == u16_pack(header_word(h))

\* EthercatFrameHeader::unpack_from_slice: the length is raw & LEN_MASK, the
\* protocol is (raw >> 12) as u8 and must be DlPdu.
EthercatFrameHeader_unpack(bytes) ==
    LET raw == u16_unpack(bytes)
    IN  IF raw \div 4096 = DlPdu
        THEN [result |-> "Ok", payload_len |-> bit_and(raw, LEN_MASK),
              protocol |-> raw \div 4096]
        ELSE [result |-> "Err"]

\* A header for len bytes is built and packed.
HeaderPack(len) ==
    /\ fh.op = "none"
    /\ UNCHANGED <<dc_vars, ext_vars>>
    /\ fh' = [op |-> "pack", len |-> len,
              bytes |-> EthercatFrameHeader_pack(EthercatFrameHeader_pdu(len))]
    /\ LoopIdle

\* The packed bytes are unpacked again.
HeaderUnpack ==
    /\ fh.op = "pack"
    /\ UNCHANGED <<dc_vars, ext_vars>>
    /\ fh' = [op |-> "unpack", len |-> fh.len, bytes |-> fh.bytes,
              header |-> EthercatFrameHeader_unpack(fh.bytes)]
    /\ LoopIdle

\* Every length the header can carry, packed and unpacked.
HeaderLens == 0 .. LEN_MASK

InitHeader == InitNew /\ retry_count = 0

NextHeader ==
    \/ \E len \in HeaderLens : HeaderPack(len)
    \/ HeaderUnpack

SpecHeader == InitHeader /\ [][NextHeader]_vars

\* ================================================================ Ports
\* subdevice/ports.rs.  A Ports value is the array [Port; 4] as a sequence:
\* array index k is element k + 1.  downstream_to is an
\* Option<NonZeroU16>: 0 stands for None.

\* A u32 is the pair <<high, low>> of its 16-bit halves, a u64 the four
\* 16-bit parts from the highest down: every part stays below U16.
u32(n) == <<n \div U16, n % U16>>

u64(n) == <<0, 0, n \div U16, n % U16>>

u32_lt(a, b) ==
    \E k \in 1 .. Len(a) : a[k] < b[k] /\ \A j \in 1 .. (k - 1) : a[j] = b[j]

u32_le(a, b) == a = b \/ u32_lt(a, b)

\* The borrow taken from part k by the parts below it in a - b.
RECURSIVE borrow(_, _, _)
borrow(a, b, k) ==
    IF k = Len(a) THEN 0
    ELSE IF a[k + 1] - borrow(a, b, k + 1) < b[k + 1] THEN 1 ELSE 0

wrapping_sub(a, b) ==
    [k \in 1 .. Len(a) |-> (a[k] - b[k] - borrow(a, b, k) + U16) % U16]

\* The carry into part k from the parts below it in a + b; carry(a, b, 0)
\* is the carry out of the whole number.
RECURSIVE carry(_, _, _)
carry(a, b, k) ==
    IF k = Len(a) THEN 0
    ELSE IF a[k + 1] + b[k + 1] + carry(a, b, k + 1) >= U16 THEN 1 ELSE 0

wrapping_add(a, b) ==
    [k \in 1 .. Len(a) |-> (a[k] + b[k] + carry(a, b, k)) % U16]

u32_saturating_sub(a, b) == IF u32_lt(b, a) THEN wrapping_sub(a, b) ELSE u32(0)

u32_saturating_add(a, b) ==
    IF carry(a, b, 0) = 1 THEN <<U16 - 1, U16 - 1>> ELSE wrapping_add(a, b)

\* The whole loop time, not one side of it.
u32_whole(a) == a

\* u32 / 2.
u32_half(a) == <<a[1] \div 2, (a[1] % 2) * (U16 \div 2) + a[2] \div 2>>

\* The port numbers of the array, in EtherCAT order.
PortNumbers == <<0, 3, 1, 2>>

\* Port::index: the array index of a port number.
Port_index(port) ==
    CASE port.number = 0 -> 0
      [] port.number = 3 -> 1
      [] port.number = 1 -> 2
      [] port.number = 2 -> 3

\* Ports::new followed by set_receive_times, both given in array order.
Ports_new(active, times) ==
    [k \in 1 .. 4 |->
        [active |-> active[k], dc_receive_time |-> times[k],
         number |-> PortNumbers[k], downstream_to |-> 0]]

\* The active ports in array order.
active_ports(ports) == SelectSeq(ports, LAMBDA port : port.active)

open_ports(ports) == Len(active_ports(ports))

\* min_by_key returns the first of several equal minima.
entry_port(ports) ==
    LET act == active_ports(ports)
        k == CHOOSE k \in 1 .. Len(act) :
                 /\ \A j \in 1 .. Len(act) :
                        u32_le(act[k].dc_receive_time, act[j].dc_receive_time)
                 /\ \A j \in 1 .. (k - 1) :
                        u32_lt(act[k].dc_receive_time, act[j].dc_receive_time)
    IN  act[k]

last_port(ports) ==
    LET act == active_ports(ports) IN act[Len(act)]

\* The array index of the port found, -1 for None: the active ports are
\* cycled, this_port.index() + 1 of them are skipped, and of the next four
\* the first with no downstream device is taken.
next_assignable_port(ports, this_port) ==
    LET act == active_ports(ports)
        n == Len(act)
        first == Port_index(this_port) + 1
        cycle(j) == act[(j % n) + 1]
        free == {j \in first .. (first + 3) : cycle(j).downstream_to = 0}
    IN  IF n = 0 \/ free = {}
        THEN -1
        ELSE Port_index(cycle(CHOOSE j \in free : \A m \in free : j <= m))

\* The ports after the call and the port number returned, -1 for None.
assign_next_downstream_port(ports, downstream_subdevice_index) ==
    LET next_port == next_assignable_port(ports, entry_port(ports))
    IN  IF next_port = -1
        THEN [ports |-> ports, number |-> -1]
        ELSE [ports |-> [ports EXCEPT ![next_port + 1].downstream_to =
                                          downstream_subdevice_index],
              number |-> ports[next_port + 1].number]

\* The array index of the port assigned to the sub-device index, -1 for
\* None.
port_assigned_to(ports, index) ==
    LET found == {k \in 1 .. 4 :
                     ports[k].active /\ ports[k].downstream_to = index}
    IN  IF found = {} THEN -1
        ELSE (CHOOSE k \in found : \A m \in found : k <= m) - 1

topology(ports) ==
    CASE open_ports(ports) = 1 -> "LineEnd"
      [] open_ports(ports) = 2 -> "Passthrough"
      [] open_ports(ports) = 3 -> "Fork"
      [] open_ports(ports) = 4 -> "Cross"
      [] OTHER -> "unreachable"

is_junction(t) == t \in {"Fork", "Cross"}

is_last_port(ports, port) ==
    open_ports(ports) > 0 /\ last_port(ports) = port

u32_max(S) == CHOOSE x \in S : \A y \in S : u32_le(y, x)

u32_min(S) == CHOOSE x \in S : \A y \in S : u32_le(x, y)

\* max - min of the times; None, given as 0 since every caller takes
\* unwrap_or(0), when there is no time or the difference is 0.
time_span(times) ==
    IF times = {} THEN u32(0)
    ELSE u32_saturating_sub(u32_max(times), u32_min(times))

total_propagation_time(ports) ==
    time_span({ports[k].dc_receive_time : k \in {j \in 1 .. 4 : ports[j].active}})

\* The sum over the windows (a, b) of the array with a before the port.
intermediate_propagation_time_to(ports, port) ==
    LET delta(k) ==
            IF Port_index(ports[k]) >= Port_index(port) THEN u32(0)
            ELSE IF ports[k].active /\ ports[k + 1].active
                 THEN u32_saturating_sub(ports[k + 1].dc_receive_time,
                                         ports[k].dc_receive_time)
                 ELSE u32(0)
    IN  wrapping_add(wrapping_add(delta(1), delta(2)), delta(3))

propagation_time_to(ports, this_port) ==
    LET entry == entry_port(ports)
    IN  time_span({ports[k].dc_receive_time :
                      k \in {j \in 1 .. 4 :
                                /\ ports[j].active
                                /\ Port_index(ports[j]) >= Port_index(entry)
                                /\ Port_index(ports[j]) <= Port_index(this_port)}})

\* ------------------------------------------------------------ SubDevice
\* A SubDevice as discovery leaves it: dc_support stands for
\* dc_support().any(), parent_index is -1 for None.
SubDevice_new(index, dc_support, ports) ==
    [index |-> index, dc_support |-> dc_support, ports |-> ports,
     parent_index |-> -1, propagation_delay |-> u32(0),
     dc_receive_time |-> u64(0)]

\* A step of the DC engine: nothing of the PDU loop or of the frame header
\* moves, and ret tells what was called.
DcCalled(v) ==
    /\ poll_result' = NoPoll /\ rx_result' = "none" /\ tx_waker_woken' = FALSE
    /\ ret' = v
    /\ UNCHANGED <<loop_vars, fh, ext_vars>>

\* ------------------------------------------------------- ports under test
BaseTime == 1000
StepTime == 100
MaxChildren == 4

ActivePatterns == {a \in [1 .. 4 -> BOOLEAN] : \E k \in 1 .. 4 : a[k]}

\* Receive times rising in array order from position e (array index),
\* wrapping: the frame came in at e or at the first open port after it.
TimesFrom(e) ==
    [k \in 1 .. 4 |-> u32(BaseTime + StepTime * ((k - 1 - e + 4) % 4))]

assigned_ports(ports) == {k \in 1 .. 4 : ports[k].downstream_to # 0}

\* One more sub-device is linked to the parent, subdevices[1].
AssignNextDownstreamPort ==
    /\ dc.pc = "ports"
    /\ Cardinality(assigned_ports(subdevices[1].ports)) < MaxChildren
    /\ LET index == Cardinality(assigned_ports(subdevices[1].ports)) + 1
           r == assign_next_downstream_port(subdevices[1].ports, index)
       IN  /\ subdevices' = [subdevices EXCEPT ![1].ports = r.ports]
           /\ DcCalled([op |-> "assign_next_downstream_port",
                        index |-> index, result |-> r.number])
    /\ UNCHANGED <<esc, dc, bus>>

\* propagation_time_to is called with the last open port of the parent.
PropagationTimeToLastPort ==
    /\ dc.pc = "ports"
    /\ LET ports == subdevices[1].ports
       IN  DcCalled([op |-> "propagation_time_to",
                     port |-> last_port(ports).number,
                     result |-> propagation_time_to(ports, last_port(ports))])
    /\ UNCHANGED dc_vars

InitPorts ==
    /\ InitPduLoop
    /\ frame_data_len = element_size(MaxPayload) /\ is_split = TRUE
    /\ first_pdu = [s \in Slots |-> 0] /\ wire = {} /\ retry_count = 0
    /\ \E a \in ActivePatterns, e \in 0 .. 3 :
           subdevices = <<SubDevice_new(0, TRUE, Ports_new(a, TimesFrom(e)))>>
    /\ esc = <<>>
    /\ dc = [pc |-> "ports"]
    /\ bus = <<>>

NextPorts == AssignNextDownstreamPort \/ PropagationTimeToLastPort

SpecPorts == InitPorts /\ [][NextPorts]_vars

\* ================================================================== dc.rs
\* The position in parents of the first device with the index, 0 if none.
position_of(parents, index) ==
    LET found == {j \in 1 .. Len(parents) : parents[j].index = index}
    IN  IF found = {} THEN 0 ELSE CHOOSE j \in found : \A m \in found : j <= m

\* The parent is always the device just before.
find_subdevice_parent_previous(parents) ==
    IF Len(parents) = 0
    THEN [result |-> "Ok", parent |-> -1]
    ELSE [result |-> "Ok", parent |-> parents[Len(parents)].index]

\* find_subdevice_parent: parent is the index field of the parent, -1 for
\* None.
find_subdevice_parent(parents) ==
    IF Len(parents) = 0
    THEN [result |-> "Ok", parent |-> -1]
    ELSE LET p == parents[Len(parents)]
             junctions == {j \in 1 .. (Len(parents) - 1) :
                              is_junction(topology(parents[j].ports))}
         IN  IF topology(p.ports) = "LineEnd"
             THEN IF junctions = {}
                  THEN [result |-> "Err(Topology)", parent |-> -1]
                  ELSE [result |-> "Ok",
                        parent |-> parents[CHOOSE j \in junctions :
                                       \A m \in junctions : m <= j].index]
             ELSE [result |-> "Ok", parent |-> p.index]

\* SubDevice::is_child_of: the parent is a junction and the device hangs on
\* a port of it that is not its last open port.
is_child_of(subdevice, parent) ==
    LET k == port_assigned_to(parent.ports, subdevice.index)
    IN  /\ is_junction(topology(parent.ports))
        /\ ~ (k # -1 /\ is_last_port(parent.ports, parent.ports[k + 1]))

\* The delay a device adds to the accumulator.
accumulate_instead_of_add(delay_accum, propagation_delay) == propagation_delay

accumulate(delay_accum, propagation_delay) ==
    u32_saturating_add(delay_accum, propagation_delay)

\* configure_subdevice_offsets: the device and the accumulator after the
\* call; result is "panic" when the parent has no port assigned to the
\* device.
configure_subdevice_offsets(subdevice, parents, delay_accum) ==
    LET pp == IF subdevice.parent_index = -1 THEN 0
              ELSE position_of(parents, subdevice.parent_index)
        unchanged == [result |-> "Ok", subdevice |-> subdevice,
                      delay_accum |-> delay_accum]
    IN  IF pp = 0 THEN unchanged
        ELSE
        LET parent == parents[pp]
            k == port_assigned_to(parent.ports, subdevice.index)
        IN  IF k = -1 THEN [unchanged EXCEPT !.result = "panic"]
            ELSE
            LET parent_port == parent.ports[k + 1]
                parent_prop_time == total_propagation_time(parent.ports)
                this_prop_time == total_propagation_time(subdevice.ports)
                parent_delta == u32_saturating_sub(parent_prop_time, this_prop_time)
                t == topology(parent.ports)
                propagation_delay ==
                    CASE t = "Passthrough" -> u32_half(parent_delta)
                      [] t = "Fork" ->
                            IF is_child_of(subdevice, parent)
                            THEN u32_half(u32_saturating_sub(
                                     propagation_time_to(parent.ports, parent_port),
                                     this_prop_time))
                            ELSE u32_half(parent_delta)
                      [] t = "Cross" ->
                            IF is_child_of(subdevice, parent)
                            THEN u32_half(u32_saturating_sub(
                                     intermediate_propagation_time_to(
                                         parent.ports, parent_port),
                                     this_prop_time))
                            ELSE u32_saturating_sub(parent_prop_time, delay_accum)
                      [] OTHER -> u32(0)
                accum == accumulate(delay_accum, propagation_delay)
            IN  [result |-> "Ok",
                 subdevice |-> [subdevice EXCEPT !.propagation_delay = accum],
                 delay_accum |-> accum]

\* The loop of assign_parent_relationships from device i (position in the
\* list) on.  An error or a panic leaves what the earlier rounds wrote.
RECURSIVE assign_from(_, _, _)
assign_from(subs, i, delay_accum) ==
    IF i > Len(subs)
    THEN [result |-> "Ok", subdevices |-> subs]
    ELSE
    LET parents == SubSeq(subs, 1, i - 1)
        found == find_subdevice_parent(parents)
    IN  IF found.result # "Ok"
        THEN [result |-> found.result, subdevices |-> subs]
        ELSE
        LET s1 == [subs EXCEPT ![i].parent_index = found.parent]
            pp == position_of(parents, found.parent)
            assigned ==
                IF found.parent = -1 THEN [number |-> 0]
                ELSE IF pp = 0 \/ s1[i].index = 0 THEN [number |-> -1]
                ELSE assign_next_downstream_port(s1[pp].ports, s1[i].index)
        IN  IF assigned.number = -1
            THEN [result |-> "panic", subdevices |-> s1]
            ELSE
            LET s2 == IF found.parent = -1 THEN s1
                      ELSE [s1 EXCEPT ![pp].ports = assigned.ports]
                off == IF s2[i].dc_support
                       THEN configure_subdevice_offsets(
                                s2[i], SubSeq(s2, 1, i - 1), delay_accum)
                       ELSE [result |-> "Ok", subdevice |-> s2[i],
                             delay_accum |-> delay_accum]
                s3 == [s2 EXCEPT ![i] = off.subdevice]
            IN  IF off.result # "Ok"
                THEN [result |-> off.result, subdevices |-> s3]
                ELSE assign_from(s3, i + 1, off.delay_accum)

assign_parent_relationships(subs) == assign_from(subs, 1, u32(0))

\* ------------------------------------------------ device lists under test
MaxDevices == 3

\* Device i of a list (from 1): any open ports, the frame coming in at any
\* of them, with or without DC.  The loop a frame makes through a device
\* is longer the nearer the device is to the MainDevice.
DeviceTimes(e, i) ==
    [k \in 1 .. 4 |->
        u32(BaseTime + StepTime * (MaxDevices + 1 - i) * ((k - 1 - e + 4) % 4))]

DeviceKinds ==
    {k \in [active : ActivePatterns, entry : 0 .. 3, dc_support : BOOLEAN] :
        k.active[k.entry + 1]}

Device(kind, i) ==
    SubDevice_new(i - 1, kind.dc_support,
                  Ports_new(kind.active, DeviceTimes(kind.entry, i)))

DeviceList(kinds) == [i \in 1 .. Len(kinds) |-> Device(kinds[i], i)]

\* The list of test propagation_delay_calc_fork: EK1100, EK1122, EL9560,
\* EK1914, EL1008.  Times are given as 16-bit halves.
ForkPorts(a0, t0, a3, t3, a1, t1, a2, t2) ==
    Ports_new(<<a0, a3, a1, a2>>, <<t0, t3, t1, t2>>)

ForkTest ==
    <<[SubDevice_new(0, TRUE, ForkPorts(
           TRUE, <<51580, 27002>>, FALSE, <<27762, 25942>>,
           TRUE, <<51580, 27602>>, TRUE, <<51580, 28882>>))
          EXCEPT !.dc_receive_time = <<0, 93, 51580, 27002>>],
      [SubDevice_new(1, TRUE, ForkPorts(
           TRUE, <<51637, 33930>>, FALSE, <<27762, 25942>>,
           FALSE, <<26214, 28520>>, TRUE, <<51637, 34240>>))
          EXCEPT !.dc_receive_time = <<0, 93, 51637, 33930>>],
      SubDevice_new(2, TRUE, ForkPorts(
           TRUE, <<51633, 42694>>, FALSE, <<27762, 25942>>,
           FALSE, <<26214, 28520>>, FALSE, <<0, 0>>)),
      SubDevice_new(3, TRUE, ForkPorts(
           TRUE, <<51481, 25146>>, FALSE, <<27762, 25942>>,
           TRUE, <<51481, 25456>>, FALSE, <<0, 0>>)),
      SubDevice_new(4, TRUE, ForkPorts(
           TRUE, <<51499, 22138>>, FALSE, <<27762, 25942>>,
           FALSE, <<26214, 28520>>, FALSE, <<0, 0>>))>>

\* assign_parent_relationships is called on the list.
AssignParentRelationships ==
    /\ dc.pc = "topology"
    /\ LET r == assign_parent_relationships(subdevices)
       IN  /\ subdevices' = r.subdevices
           /\ DcCalled([op |-> "assign_parent_relationships",
                        result |-> r.result])
    /\ dc' = [pc |-> "assigned"]
    /\ UNCHANGED <<esc, bus>>

InitTopology ==
    /\ InitPduLoop
    /\ frame_data_len = element_size(MaxPayload) /\ is_split = TRUE
    /\ first_pdu = [s \in Slots |-> 0] /\ wire = {} /\ retry_count = 0
    /\ \/ \E n \in 1 .. MaxDevices : \E kinds \in [1 .. n -> DeviceKinds] :
              subdevices = DeviceList(kinds)
       \/ subdevices = ForkTest
    /\ esc = <<>>
    /\ dc = [pc |-> "topology"]
    /\ bus = <<>>

NextTopology == AssignParentRelationships

SpecTopology == InitTopology /\ [][NextTopology]_vars

\* ============================================================ configure_dc
\* The hardware behind a device list: what each ESC answers.  The list
\* holds the times the ports latch; DcReceiveTime is the 64-bit time of
\* the frame's arrival.
Hardware(list) ==
    [i \in 1 .. Len(list) |->
        [dc_support |-> list[i].dc_support,
         active |-> [k \in 1 .. 4 |-> list[i].ports[k].active],
         times |-> [k \in 1 .. 4 |-> list[i].ports[k].dc_receive_time],
         receive_time |-> list[i].dc_receive_time]]

\* The SubDevice list discovery hands to configure_dc: no receive time has
\* been read yet.
Discovered(hw) ==
    [i \in 1 .. Len(hw) |->
        SubDevice_new(i - 1, hw[i].dc_support,
                      Ports_new(hw[i].active, [k \in 1 .. 4 |-> u32(0)]))]

\* The kinds of device configure_dc is run on: a line end, a passthrough
\* and a fork, entered at port 0.
HwKinds ==
    {k \in DeviceKinds :
        /\ k.entry = 0
        /\ k.active \in {<<TRUE, FALSE, FALSE, FALSE>>,
                         <<TRUE, FALSE, TRUE, FALSE>>,
                         <<TRUE, FALSE, TRUE, TRUE>>}}

HwList(kinds) ==
    [i \in 1 .. Len(kinds) |->
        [Device(kinds[i], i) EXCEPT
            !.dc_receive_time = <<0, 0>> \o DeviceTimes(kinds[i].entry, i)[1]]]

\* The working counters a broadcast may come back with.
WkcValues == 0 .. (MaxDevices + 2)

\* The values now() may return.
NowValues == {u64(0), u64(BaseTime)}

\* The position after i, whatever the device supports.
next_device(subs, i) == IF i < Len(subs) THEN i + 1 ELSE 0

\* The position of the first DC-capable device after position i, 0 if
\* there is none.
next_dc(subs, i) ==
    LET later == {j \in (i + 1) .. Len(subs) : subs[j].dc_support}
    IN  IF later = {} THEN 0 ELSE CHOOSE j \in later : \A m \in later : j <= m

num_subdevices_with_dc(subs) ==
    Cardinality({j \in 1 .. Len(subs) : subs[j].dc_support})

\* ReceivedPdu::maybe_wkc: None checks nothing (-1 here).
maybe_wkc(expected, wkc) ==
    IF expected # -1 /\ wkc # expected THEN "Err(WorkingCounter)" ELSE "Ok"

\* WrappedWrite::send: the response is dropped, its working counter
\* unread.
send(expected, wkc) == "Ok"

\* WrappedRead::receive.
receive(expected, wkc) == maybe_wkc(expected, wkc)

\* A command that was answered: what single_pdu returned and what the
\* caller made of it.
Answered(command, register, device, wkc, result) ==
    /\ bus' = Append(bus, [cmd |-> command, register |-> register,
                           device |-> device])
    /\ DcCalled([op |-> "single_pdu", cmd |-> command, register |-> register,
                 device |-> device, wkc |-> wkc, result |-> result])

\* configure_dc goes on at pc with device i, or returns the error.
GoOn(result, pc, i) ==
    IF result = "Ok"
    THEN dc' = [dc EXCEPT !.pc = pc, !.i = i]
    ELSE dc' = [dc EXCEPT !.pc = "return", !.i = 0, !.result = result]

\* After the last read of a device: the next DC device, or the topology.
AfterRead(i) ==
    IF next_dc(subdevices, i) # 0 THEN "read_receive_time" ELSE "assign"

\* latch_dc_times: the BWR to DcTimePort0 is answered with some working
\* counter.
LatchDcTimes(wkc) ==
    /\ dc.pc = "latch"
    /\ wkc <= Len(esc)
    /\ LET result == send(num_subdevices_with_dc(subdevices), wkc)
       IN  /\ Answered("BWR", "DcTimePort0", -1, wkc, result)
           /\ GoOn(result, AfterRead(0), next_dc(subdevices, 0))
    /\ UNCHANGED <<subdevices, esc>>

\* The FPRD of DcReceiveTime, working counter ignored.
ReadReceiveTime(wkc) ==
    /\ dc.pc = "read_receive_time"
    /\ LET result == receive(-1, wkc)
       IN  /\ Answered("FPRD", "DcReceiveTime", dc.i - 1, wkc, result)
           /\ dc' = [dc EXCEPT !.pc = "read_port_times",
                               !.dc_receive_time = esc[dc.i].receive_time]
    /\ UNCHANGED <<subdevices, esc>>

\* The FPRD of DcTimePort0: four times in register order, ports 0, 1, 2,
\* 3, stored with set_receive_times(time_p0, time_p3, time_p1, time_p2).
ReadPortTimes(wkc) ==
    /\ dc.pc = "read_port_times"
    /\ LET result == receive(1, wkc)
           registers == <<esc[dc.i].times[1], esc[dc.i].times[3],
                          esc[dc.i].times[4], esc[dc.i].times[2]>>
           time_p0 == registers[1]
           time_p1 == registers[2]
           time_p2 == registers[3]
           time_p3 == registers[4]
           times == <<time_p0, time_p3, time_p1, time_p2>>
       IN  /\ Answered("FPRD", "DcTimePort0", dc.i - 1, wkc, result)
           /\ GoOn(result, AfterRead(dc.i), next_dc(subdevices, dc.i))
           /\ subdevices' =
                  IF result = "Ok"
                  THEN [subdevices EXCEPT
                           ![dc.i].dc_receive_time = dc.dc_receive_time,
                           ![dc.i].ports =
                               [k \in 1 .. 4 |->
                                   [@[k] EXCEPT !.dc_receive_time = times[k]]]]
                  ELSE subdevices
    /\ UNCHANGED esc

\* assign_parent_relationships, then the choice of the reference clock and
\* the call of now().
DcAssign(now) ==
    /\ dc.pc = "assign"
    /\ LET r == assign_parent_relationships(subdevices)
           first_dc == next_dc(subdevices, 0)
       IN  /\ subdevices' = r.subdevices
           /\ bus' = Append(bus, [cmd |-> "assign_parent_relationships",
                                  register |-> "none", device |-> -1])
           /\ DcCalled([op |-> "assign_parent_relationships",
                        result |-> r.result])
           /\ IF r.result # "Ok"
              THEN dc' = [dc EXCEPT !.pc = "return", !.result = r.result]
              ELSE IF first_dc = 0
              THEN dc' = [dc EXCEPT !.pc = "return", !.result = "Ok"]
              ELSE dc' = [dc EXCEPT !.pc = "write_offset", !.i = first_dc,
                                    !.now = now]
    /\ UNCHANGED esc

\* write_dc_parameters: the FPWR of DcSystemTimeOffset, working counter
\* ignored.  The offset is -(dc_receive_time as i64) + now as i64.
WriteOffset(wkc) ==
    /\ dc.pc = "write_offset"
    /\ LET result == send(-1, wkc)
       IN  /\ Answered("FPWR", "DcSystemTimeOffset", dc.i - 1, wkc, result)
           /\ dc' = [dc EXCEPT !.pc = "write_delay",
                               !.system_time_offset =
                                   wrapping_sub(dc.now,
                                       subdevices[dc.i].dc_receive_time)]
    /\ UNCHANGED <<subdevices, esc>>

\* write_dc_parameters: the FPWR of DcSystemTimeTransmissionDelay, working
\* counter ignored; then the next DC device, or the end.
WriteDelay(wkc) ==
    /\ dc.pc = "write_delay"
    /\ LET result == send(-1, wkc)
           next == next_dc(subdevices, dc.i)
       IN  /\ Answered("FPWR", "DcSystemTimeTransmissionDelay", dc.i - 1,
                       wkc, result)
           /\ IF next # 0
              THEN dc' = [dc EXCEPT !.pc = "write_offset", !.i = next]
              ELSE dc' = [dc EXCEPT !.pc = "return", !.i = 0, !.result = "Ok"]
    /\ UNCHANGED <<subdevices, esc>>

\* The command being awaited gets no answer: single_pdu returns
\* Err(Timeout) and `?` hands it to the caller of configure_dc.
CommandTimeout ==
    /\ dc.pc \in {"latch", "read_receive_time", "read_port_times",
                  "write_offset", "write_delay"}
    /\ dc' = [dc EXCEPT !.pc = "return", !.i = 0, !.result = "Err(Timeout)"]
    /\ DcCalled([op |-> "single_pdu", result |-> "Err(Timeout)"])
    /\ UNCHANGED <<subdevices, esc, bus>>

\* configure_dc returns: the reference clock is the index of the first DC
\* device, -1 for None.
ConfigureDcReturn ==
    /\ dc.pc = "return"
    /\ dc' = [dc EXCEPT !.pc = "done"]
    /\ DcCalled([op |-> "configure_dc", result |-> dc.result,
                 reference |->
                     IF dc.result = "Ok" /\ next_dc(subdevices, 0) # 0
                     THEN subdevices[next_dc(subdevices, 0)].index
                     ELSE -1])
    /\ UNCHANGED <<subdevices, esc, bus>>

InitDc ==
    /\ InitPduLoop
    /\ frame_data_len = element_size(MaxPayload) /\ is_split = TRUE
    /\ first_pdu = [s \in Slots |-> 0] /\ wire = {} /\ retry_count = 0
    /\ \/ \E n \in 1 .. MaxDevices : \E kinds \in [1 .. n -> HwKinds] :
              esc = Hardware(HwList(kinds))
       \/ esc = Hardware(ForkTest)
    /\ subdevices = Discovered(esc)
    /\ dc = [pc |-> "latch", i |-> 0, result |-> "none", now |-> u64(0),
             dc_receive_time |-> u64(0), system_time_offset |-> u64(0)]
    /\ bus = <<>>

NextDc ==
    \/ \E wkc \in WkcValues : LatchDcTimes(wkc)
    \/ \E wkc \in 0 .. 1 : ReadReceiveTime(wkc)
    \/ \E wkc \in 0 .. 1 : ReadPortTimes(wkc)
    \/ \E now \in NowValues : DcAssign(now)
    \/ \E wkc \in 0 .. 1 : WriteOffset(wkc)
    \/ \E wkc \in 0 .. 1 : WriteDelay(wkc)
    \/ CommandTimeout
    \/ ConfigureDcReturn

SpecDc == InitDc /\ [][NextDc]_vars

\* ------------------------------------------- responses of any length
\* EtherCAT payload lengths of the frames the network hands over: an empty
\* frame, one that fills the slot's PDU region, and one a byte longer.
RxPayloadLens ==
    {0, PDU_OVERHEAD_BYTES + MaxPayload, PDU_OVERHEAD_BYTES + MaxPayload + 1}

\* A frame with the first PDU index idx and an EtherCAT header that announces
\* payload_len bytes of PDUs.
SizedResponse(idx, payload_len) ==
    [ethertype |-> ETHERCAT_ETHERTYPE, src_addr |-> SUBDEVICE_ADDR, idx |-> idx,
     payload_len |-> payload_len]

\* PduRx::receive_frame on the frame f, up to the lookup, with the length
\* of the EtherCAT payload: Ignored on the exit flag, on a foreign frame and
\* on an empty one; Err(Decode) when no slot has the first PDU index.
ReceiveSizedFrame(f) ==
    /\ rx.pc = "idle"
    /\ IF \/ should_exit(exit_flag)
          \/ is_foreign(f.ethertype, f.src_addr, MAINDEVICE_ADDR)
          \/ f.payload_len = 0
       THEN /\ ReceiveCalled(f, "Ignored")
            /\ UNCHANGED rx
       ELSE LET i == frame_index_by_first_pdu_index(first_pdu, f.idx)
            IN  IF i = -1
                THEN /\ ReceiveCalled(f, "Err(Decode)")
                     /\ UNCHANGED rx
                ELSE /\ ReceiveCalled(f, "none")
                     /\ rx' = [pc |-> "claim", slot |-> i, idx |-> f.idx,
                               len |-> f.payload_len]
    /\ UNCHANGED <<slot_vars, frame_idx, pdu_idx, cfg_vars, pdu_vars, handle,
                   fut_vars, tx>>

\* A frame of any of the lengths arrives in response to a frame on the wire.
RxLookupSized(idx, payload_len) ==
    /\ idx \in wire
    /\ wire' = wire \ {idx}
    /\ ReceiveSizedFrame(SizedResponse(idx, payload_len))

\* PduRx::receive_frame after the claim: frame_data.get_mut(0..i.len()) is
\* None when the received payload is longer than the slot's PDU region, and
\* receive_frame returns Err(Internal); the ReceivingFrame is dropped, which
\* does nothing to the slot.  Else the payload is copied and the frame is
\* marked received.
RxCopy ==
    /\ rx.pc = "copy"
    /\ IF range_fits(0, rx.len, PduBufLen)
       THEN RxMarkReceived
       ELSE /\ Received("Err(Internal)")
            /\ rx' = RxIdle
            /\ UNCHANGED <<slot_vars, frame_idx, pdu_idx, cfg_vars, pdu_vars,
                           handle, fut_vars, tx, wire>>

NextSized ==
    \/ Allocate(MaxCursor)
    \/ Compose
    \/ Future
    \/ TxDriver
    \/ \E idx \in Indices, len \in RxPayloadLens : RxLookupSized(idx, len)
    \/ RxClaim
    \/ RxCopy
    \/ RxWake

SpecSized == InitReuse /\ [][NextSized]_vars

\* ---------------------------------------------- concurrent alloc_frame
\* A step of a producer thread inside alloc_frame; v is what the call
\* returned, NoRet while it is still running.
ProducerStep(v) ==
    /\ poll_result' = NoPoll /\ rx_result' = "none" /\ tx_waker_woken' = FALSE
    /\ ret' = v
    /\ UNCHANGED <<fh, dc_vars, codec>>

\* alloc_frame is entered: the loop has num_frames * 2 iterations ahead.
AllocCall(p) ==
    /\ producers[p].pc = "idle"
    /\ producers' = [producers EXCEPT ![p] =
                        [pc |-> "fetch", left |-> NumFrames * 2, slot |-> 0]]
    /\ ProducerStep(NoRet)
    /\ UNCHANGED loop_vars

\* One iteration, the cursor: frame_idx.fetch_add(1) % num_frames.
AllocFetch(p) ==
    /\ producers[p].pc = "fetch"
    /\ frame_idx' = (frame_idx + 1) % U8
    /\ producers' = [producers EXCEPT ![p] =
                        [pc |-> "cas", left |-> @.left - 1,
                         slot |-> frame_idx % NumFrames]]
    /\ ProducerStep(NoRet)
    /\ UNCHANGED <<slot_vars, fut_vars, drv_vars, cfg_vars, pdu_vars, pdu_idx,
                   handle>>

\* The loop `for _ in 0..(num_frames * 2)` is over when no iteration is left.
attempts_exhausted(left) == left = 0

\* One iteration, the claim: CreatedFrame::claim_created on the slot drawn,
\* None -> Created by compare_exchange, then the initialisation of the
\* slot; Ok(frame) on success, the next iteration on failure, and
\* Err(SwapState) after the last one.
AllocClaim(p) ==
    /\ producers[p].pc = "cas"
    /\ LET i == producers[p].slot
       IN  IF swap_state(status[i], "None", "Created").ok
           THEN /\ status' = [status EXCEPT ![i] = "Created"]
                /\ pdu_payload_len' = [pdu_payload_len EXCEPT ![i] = 0]
                /\ waker' = [waker EXCEPT ![i] = FALSE]
                /\ first_pdu' = [first_pdu EXCEPT ![i] = FIRST_PDU_EMPTY]
                /\ hdr_len' = [hdr_len EXCEPT ![i] = 0]
                /\ buf' = [buf EXCEPT ![i] = Zeroed]
                /\ pdus' = [pdus EXCEPT ![i] = << >>]
                /\ dirty' = [dirty EXCEPT ![i] = payload_fill_zero(@)]
                /\ pdu_count' = [pdu_count EXCEPT ![i] = 0]
                /\ last_header_location' =
                       [last_header_location EXCEPT ![i] = -1]
                /\ handle' = [handle EXCEPT ![i] = "created"]
                /\ producers' = [producers EXCEPT ![p].pc = "done"]
                /\ ProducerStep([op |-> "alloc_frame", result |-> "Ok",
                                 slot |-> i, producer |-> p])
           ELSE /\ UNCHANGED <<slot_vars, pdu_vars, handle>>
                /\ IF attempts_exhausted(producers[p].left)
                   THEN /\ producers' = [producers EXCEPT ![p].pc = "done"]
                        /\ ProducerStep([op |-> "alloc_frame",
                                         result |-> "Err(SwapState)",
                                         slot |-> -1, producer |-> p])
                   ELSE /\ producers' = [producers EXCEPT ![p].pc = "fetch"]
                        /\ ProducerStep(NoRet)
    /\ UNCHANGED <<fut_vars, drv_vars, cfg_vars, frame_idx, pdu_idx>>

\* No producer thread is inside alloc_frame, none has returned from it.
NoneCalling == \A p \in Producers : producers[p].pc = "idle"

\* The store is brought to any filling by calls that do not overlap, with
\* frames dropped again; then the producer threads call alloc_frame, each
\* once, in any interleaving of their steps.  From then on no slot is
\* released.
NextProducers ==
    \/ NoneCalling /\ Allocate(MaxReuseCursor)
    \/ \E s \in Slots : NoneCalling /\ DropCreated(s)
    \/ \E p \in Producers : AllocCall(p)
    \/ \E p \in Producers : AllocFetch(p)
    \/ \E p \in Producers : AllocClaim(p)

SpecProducers == InitReuse /\ [][NextProducers]_vars

\* ------------------------------------------------------------ fairness
\* Every party keeps going: a producer that holds a created frame marks it
\* sendable or drops it, a task that holds a future polls it or drops it,
\* its timeout timer fires unless the future is gone first, a received
\* frame is dropped, and the TX and RX drivers run whenever they have a
\* step to take.
Fairness ==
    /\ \A s \in Slots : WF_vars(MarkSendable(s) \/ DropCreated(s))
    /\ \A s \in Slots :
          WF_vars(PollRegister(s) \/ PollSwap(s) \/ PollTimeout(s) \/ DropFut(s))
    /\ \A s \in Slots : WF_vars(TimerExpire(s))
    /\ \A s \in Slots : WF_vars(DropReceived(s))
    /\ WF_vars(TxDriver)
    /\ WF_vars(RxDriver)

SpecLive == Init /\ [][Next]_vars /\ Fairness

\* ------------------------------------------------ derived wire structs
\* A struct under #[derive(EtherCrabWireReadWrite)] is its #[wire(bits)]
\* width and its fields; a field is its type, its width attribute in bits
\* (NoWidth: none), its pre_skip and post_skip in bits (0: none) and its
\* skip attribute.
NoWidth == -1
\* Fields of a struct, at most.
MaxFields == 2

\* Types with the widths they are declared with: u8 and bool fields of
\* part of a byte or a whole one, a nested derived struct of part of a
\* byte, u16 fields of two bytes or (wrongly) of a byte and a half.
FieldKinds ==
    {[ty |-> "u8", width |-> NoWidth], [ty |-> "u8", width |-> 1],
     [ty |-> "u8", width |-> 3], [ty |-> "u8", width |-> 8],
     [ty |-> "bool", width |-> 1], [ty |-> "struct", width |-> 4],
     [ty |-> "u16", width |-> 12], [ty |-> "u16", width |-> 16]}
PreSkips == {0, 4}
PostSkips == {0, 4, 5}
StructWidths == {8, 16, 24}

Field(kind, pre_skip, post_skip, skip) ==
    [ty |-> kind.ty, width |-> kind.width, pre_skip |-> pre_skip,
     post_skip |-> post_skip, skip |-> skip]

Fields ==
    {Field(k, pre, post, skip) :
        k \in FieldKinds, pre \in PreSkips, post \in PostSkips, skip \in BOOLEAN}

Layouts == UNION {[1 .. n -> Fields] : n \in 1 .. MaxFields}

\* usize::div_ceil.
div_ceil(a, b) == (a + b - 1) \div b

\* A check of the start of the field only.
misaligned_at_start(bit_offset, field_width) == bit_offset > 0

\* parse_struct, the condition on a field of more than one byte:
\* bit_offset > 0 || field_width % 8 > 0.
misaligned(bit_offset, field_width) == bit_offset > 0 \/ field_width % 8 > 0

\* parse_struct, the field loop from field k on, with total_field_width
\* bits before it: the FieldMeta of every field, or the first error.
RECURSIVE parse_fields(_, _, _, _)
parse_fields(fields, k, total_field_width, field_meta) ==
    IF k > Len(fields)
    THEN [result |-> "Ok", total_field_width |-> total_field_width,
          fields |-> field_meta]
    ELSE LET f == fields[k]
             pre_skip == IF f.skip THEN 0 ELSE f.pre_skip
             post_skip == IF f.skip THEN 0 ELSE f.post_skip
             bit_start == total_field_width + pre_skip
             bit_end == IF f.width = NoWidth THEN bit_start
                        ELSE bit_start + f.width
             byte_start == bit_start \div 8
             byte_end == div_ceil(bit_end, 8)
             bit_offset == bit_start % 8
             meta == [ty |-> f.ty, bit_start |-> bit_start,
                      bit_end |-> bit_end, byte_start |-> byte_start,
                      byte_end |-> byte_end, bit_offset |-> bit_offset,
                      skip |-> f.skip]
         IN  IF f.skip
             THEN parse_fields(fields, k + 1, bit_start + post_skip,
                               Append(field_meta, meta))
             ELSE IF f.width = NoWidth
             THEN [result |-> "Err(Field must have a width attribute)"]
             ELSE IF /\ byte_end - byte_start > 1
                     /\ misaligned(bit_offset, f.width)
             THEN [result |-> "Err(Multibyte fields must be byte-aligned)"]
             ELSE IF bit_end - bit_start < 8 /\ byte_end - byte_start > 1
             THEN [result |-> "Err(may not cross byte boundaries)"]
             ELSE parse_fields(fields, k + 1,
                               bit_start + f.width + post_skip,
                               Append(field_meta, meta))

\* parse_struct: the field loop, then the total against the struct width.
parse_struct(width, fields) ==
    LET r == parse_fields(fields, 1, 0, << >>)
    IN  IF r.result # "Ok" THEN r
        ELSE IF r.total_field_width # width
        THEN [result |-> "Err(Total field width)"]
        ELSE [result |-> "Ok", width_bits |-> width, fields |-> r.fields]

\* 2 to the power n.
RECURSIVE pow2(_)
pow2(n) == IF n = 0 THEN 1 ELSE 2 * pow2(n - 1)

\* The mask of a field within its byte, (2u16.pow(bits.len()) - 1) << bit_start.
field_mask(m) == ((pow2(m.bit_end - m.bit_start) - 1) * pow2(m.bit_offset)) % U16

\* << and >> on a u8.
shl_u8(v, s) == (v * pow2(s)) % U8
shr_u8(v, s) == v \div pow2(s)

\* `self.field as u8` of a u8 or bool field.
as_u8(ty, v) == IF ty = "bool" THEN (IF v THEN 1 ELSE 0) ELSE v

\* EtherCrabWireWrite::pack_to_slice_unchecked of a field type into len
\* bytes: a u16 as its two little-endian bytes, a nested derived struct of
\* part of a byte, given by its packed byte, as that byte.
field_pack(ty, v) == IF ty = "u16" THEN u16_pack(v) ELSE <<v>>

\* EtherCrabWireRead::unpack_from_slice of a field type.
field_unpack(ty, bytes) == IF ty = "u16" THEN u16_unpack(bytes) ELSE bytes[1]

\* Default::default() of a field type.
field_default(ty) == IF ty = "bool" THEN FALSE ELSE 0

\* A write that leaves the target as it finds it.
write_bytes_kept(slice) == slice

\* buf.as_mut_ptr().write_bytes(0u8, buf.len()): the target is zeroed first.
write_bytes_zero(slice) == [i \in DOMAIN slice |-> 0]

\* generate_struct_write, the statement generated for the field m (bytes are
\* counted from 0 in the code and from 1 here).
pack_field(slice, m, v) ==
    IF m.skip THEN slice
    ELSE IF m.ty \in {"u8", "bool"}
    THEN [slice EXCEPT ![m.byte_start + 1] =
             bit_or(@, bit_and(shl_u8(as_u8(m.ty, v), m.bit_offset),
                               field_mask(m)))]
    ELSE IF m.byte_end - m.byte_start = 1
    THEN [slice EXCEPT ![m.byte_start + 1] =
             bit_or(@, bit_and(shl_u8(field_pack(m.ty, v)[1], m.bit_offset),
                               field_mask(m)))]
    ELSE [i \in DOMAIN slice |->
             IF i > m.byte_start /\ i <= m.byte_end
             THEN field_pack(m.ty, v)[i - m.byte_start]
             ELSE slice[i]]

RECURSIVE pack_fields(_, _, _, _)
pack_fields(slice, metas, value, k) ==
    IF k > Len(metas) THEN slice
    ELSE pack_fields(pack_field(slice, metas[k], value[k]), metas, value, k + 1)

\* The generated pack_to_slice_unchecked: the first size_bytes bytes of the
\* target are zeroed, then every field is packed.
struct_write(meta, value, target) ==
    pack_fields(write_bytes_zero(target), meta.fields, value, 1)

\* generate_struct_read, the expression generated for the field m.
unpack_field(slice, m) ==
    IF m.skip THEN field_default(m.ty)
    ELSE IF m.bit_end - m.bit_start <= 8
    THEN LET masked == shr_u8(bit_and(slice[m.byte_start + 1], field_mask(m)),
                              m.bit_offset)
         IN  IF m.ty = "bool" THEN masked > 0
             ELSE IF m.ty = "u8" THEN masked
             ELSE field_unpack(m.ty, <<masked>>)
    ELSE field_unpack(m.ty, SubSeq(slice, m.byte_start + 1, m.byte_end))

\* The generated unpack_from_slice.
struct_read(meta, slice) ==
    IF Len(slice) < div_ceil(meta.width_bits, 8)
    THEN [result |-> "Err(ReadBufferTooShort)"]
    ELSE [result |-> "Ok",
          value |-> [k \in 1 .. Len(meta.fields) |->
                        unpack_field(slice, meta.fields[k])]]

\* Values of a field that fit its width.
FieldValues(f) ==
    IF f.ty = "bool" THEN BOOLEAN
    ELSE IF f.ty = "u16" THEN {0, 258, U16 - 1}
    ELSE IF f.width = NoWidth THEN {0, 1}
    ELSE {0, 1, pow2(f.width) - 1}

\* Values of a struct with the given fields, of its first k fields.
RECURSIVE ValuesUpTo(_, _)
ValuesUpTo(fields, k) ==
    IF k = 0 THEN {<< >>}
    ELSE {Append(v, a) : v \in ValuesUpTo(fields, k - 1),
                         a \in FieldValues(fields[k])}

StructValues(fields) == ValuesUpTo(fields, Len(fields))

\* What the bytes of the target hold before the write.
Fills == {0, U8 - 1}

\* A step of the codec.
CodecStep ==
    /\ LoopIdle
    /\ UNCHANGED <<fh, dc_vars, producers>>

\* The derive runs on a struct: parse_struct.
ParseStruct(width, fields) ==
    /\ codec.op = "none"
    /\ codec' = [op |-> "parse_struct", width |-> width, fields |-> fields,
                 meta |-> parse_struct(width, fields)]
    /\ CodecStep

\* A value of the struct is packed into a target filled with `fill`.
StructWrite(fill) ==
    /\ codec.op = "parse_struct"
    /\ codec.meta.result = "Ok"
    /\ \E value \in StructValues(codec.fields) :
          LET target == [i \in 1 .. div_ceil(codec.width, 8) |-> fill]
          IN  codec' = [op |-> "pack", width |-> codec.width,
                        fields |-> codec.fields, meta |-> codec.meta,
                        value |-> value, target |-> target,
                        bytes |-> struct_write(codec.meta, value, target)]
    /\ CodecStep

\* The bytes are unpacked again.
StructRead ==
    /\ codec.op = "pack"
    /\ codec' = [codec EXCEPT !.op = "unpack"] @@
                [read |-> struct_read(codec.meta, codec.bytes)]
    /\ CodecStep

NextStruct ==
    \/ \E width \in StructWidths, fields \in Layouts : ParseStruct(width, fields)
    \/ \E fill \in Fills : StructWrite(fill)
    \/ StructRead

SpecStruct == InitHeader /\ [][NextStruct]_vars

\* ------------------------------------------------- derived wire enums
\* An enum under the derive is its variants in order: a variant with a
\* discriminant and alternatives, or the catch-all variant.  OneByte is the
\* enum of the crate documentation.
Variant(name, discriminant, alternatives) ==
    [name |-> name, discriminant |-> discriminant,
     alternatives |-> alternatives, catch_all |-> FALSE]
CatchAll(name) ==
    [name |-> name, discriminant |-> -1, alternatives |-> {}, catch_all |-> TRUE]

OneByte ==
    <<Variant("Foo", 1, {}), Variant("Bar", 2, {3, 4, 5, 6}),
      Variant("Baz", 7, {}), Variant("Quux", 171, {}), CatchAll("Unknown")>>

\* The same without the catch-all, and with the variants in another order.
Enums ==
    {OneByte, SubSeq(OneByte, 1, 4),
     <<CatchAll("Unknown"), Variant("Bar", 2, {3, 4, 5, 6}),
       Variant("Foo", 1, {})>>}

\* Raw values of the repr u8.
RawValues == 0 .. (U8 - 1)

\* A value of the enum: a variant, the catch-all with the raw value it holds.
EnumValue(name, held) == [name |-> name, held |-> held]
EnumValues(def) ==
    {EnumValue(def[k].name, -1) : k \in {j \in DOMAIN def : ~def[j].catch_all}}
    \cup {EnumValue(def[k].name, raw) :
             k \in {j \in DOMAIN def : def[j].catch_all}, raw \in RawValues}

\* The first variant from k on that matches raw by its discriminant
\* (pass 1) or by an alternative (pass 2), 0 if none does.
RECURSIVE match_variant(_, _, _, _)
match_variant(def, raw, pass, k) ==
    IF k > Len(def) THEN 0
    ELSE IF /\ ~def[k].catch_all
            /\ \/ pass = 1 /\ def[k].discriminant = raw
               \/ pass = 2 /\ raw \in def[k].alternatives
    THEN k
    ELSE match_variant(def, raw, pass, k + 1)

\* A catch-all that forgets the raw value.
catch_all_default(name, raw) == EnumValue(name, 0)

\* The catch-all variant holding the raw value.
catch_all_holding(name, raw) == EnumValue(name, raw)

\* The generated unpack_from_slice of an enum: canonical discriminants,
\* then alternatives, then the catch-all, else InvalidValue.
enum_read(def, raw) ==
    LET c == match_variant(def, raw, 1, 1)
        a == match_variant(def, raw, 2, 1)
        rest == {k \in DOMAIN def : def[k].catch_all}
    IN  IF c # 0 THEN [result |-> "Ok", value |-> EnumValue(def[c].name, -1)]
        ELSE IF a # 0
        THEN [result |-> "Ok", value |-> EnumValue(def[a].name, -1)]
        ELSE IF rest # {}
        THEN [result |-> "Ok",
              value |-> catch_all_holding(def[CHOOSE k \in rest : TRUE].name, raw)]
        ELSE [result |-> "Err(InvalidValue)"]

\* The generated pack of an enum: the variant's discriminant, the held
\* value of the catch-all.
enum_write(def, v) ==
    LET k == CHOOSE j \in DOMAIN def : def[j].name = v.name
    IN  IF def[k].catch_all THEN v.held ELSE def[k].discriminant

\* A raw value is unpacked as the enum.
EnumRead(def, raw) ==
    /\ codec.op = "none"
    /\ codec' = [op |-> "enum_read", def |-> def, raw |-> raw,
                 read |-> enum_read(def, raw)]
    /\ CodecStep

\* A value of the enum is packed.
EnumWrite(def) ==
    /\ codec.op = "none"
    /\ \E v \in EnumValues(def) :
          codec' = [op |-> "enum_write", def |-> def, value |-> v,
                    raw |-> enum_write(def, v)]
    /\ CodecStep

\* What was packed is unpacked again.
EnumReadBack ==
    /\ codec.op = "enum_write"
    /\ codec' = [codec EXCEPT !.op = "enum_read_back"] @@
                [read |-> enum_read(codec.def, codec.raw)]
    /\ CodecStep

NextEnum ==
    \/ \E def \in Enums, raw \in RawValues : EnumRead(def, raw)
    \/ \E def \in Enums : EnumWrite(def)
    \/ EnumReadBack

SpecEnum == InitHeader /\ [][NextEnum]_vars
\* ---------------------------------------------------------------- roles
\* A producer holds slot s as a CreatedFrame it is composing.
ProducerHolds(s) == handle[s] = "created"
\* The TX driver holds slot s: claimed, not yet marked sent or released.
TxHolds(s) == tx.pc = "sending" /\ tx.slot = s
\* The RX driver holds slot s: claimed for receiving, not yet marked received.
RxHolds(s) == rx.pc = "copy" /\ rx.slot = s

\* C1: a slot is held by at most one role at a time: a producer composing
\* it, the TX driver between its claim and mark_sent/release, or the RX
\* driver between its claim and mark_received; in particular no slot is
\* held by TX and RX together, or by a producer together with a driver.
C1_OneRoleAtATime ==
    \A s \in Slots :
        /\ ~(ProducerHolds(s) /\ TxHolds(s))
        /\ ~(ProducerHolds(s) /\ RxHolds(s))
        /\ ~(TxHolds(s) /\ RxHolds(s))

\* C2: a slot in state None (Idle) leaves it only through alloc_frame,
\* that is only to Created; no step of the TX or RX driver moves a slot
\* out of None.
C2_IdleLeftOnlyByAlloc ==
    [][\A s \in Slots :
          (status[s] = "None" /\ status'[s] # "None") => status'[s] = "Created"]_vars

\* C3: for a frame to which no response arrives, with configured retry
\* count n: a poll that handles one of the first n timer expirations stores
\* Sendable, wakes the TX driver, counts the retry down and returns Pending;
\* the poll that handles expiration n+1 returns Timeout and leaves the slot
\* None; the frame is offered to the TX driver at most n+1 times.
C3_RetriesThenTimeout ==
    [][\A s \in Slots :
          (fut_pc[s] = "timer" /\ fut_pc'[s] # "timer") =>
              IF hist[s].expirations < retry_count
              THEN /\ status'[s] = "Sendable"
                   /\ tx_waker_woken'
                   /\ retries_left'[s] = retries_left[s] - 1
                   /\ poll_result'[s] = "Pending"
                   /\ hist'[s].offers = hist[s].offers + 1
                   /\ hist'[s].offers <= retry_count + 1
              ELSE /\ hist[s].expirations = retry_count
                   /\ hist[s].offers = retry_count + 1
                   /\ poll_result'[s] = "Timeout"
                   /\ status'[s] = "None"
                   /\ handle'[s] = "none"]_vars

\* A future configured with two retries has just returned Timeout.
C3_TimeoutAfterTwoRetries ==
    \E s \in Slots :
        /\ retry_count = 2
        /\ poll_result[s] = "Timeout"
        /\ status[s] = "None"

C5_ResponseToItsFrame ==
    \A s \in Slots :
        (handle[s] = "received" /\ first_pdu[s] # FIRST_PDU_EMPTY) =>
            buf[s] = [kind |-> "resp", idx |-> first_pdu[s]]

\* C6: no two slots holding an in-flight frame (Sendable, Sending, Sent or
\* RxBusy) with a PDU in it have the same first PDU index.
C6_UniqueFirstPdu ==
    \A s, t \in Slots :
        (/\ s # t
         /\ status[s] \in InFlight
         /\ status[t] \in InFlight
         /\ first_pdu[s] # FIRST_PDU_EMPTY) =>
            first_pdu[s] # first_pdu[t]

\* The slots whose first_pdu holds the queried 8-bit index.
Matching(fp, idx) ==
    {s \in Slots : fp[s] # FIRST_PDU_EMPTY /\ fp[s] = idx}

C8_LateResponseDropped ==
    [][(rx.pc = "claim" /\ rx'.pc # "claim" /\ status[rx.slot] # "Sent") =>
           /\ status' = status
           /\ buf' = buf
           /\ rx_result' \notin
                  {"Err(Decode)", "Err(InvalidIndex)", "Err(InvalidFrameState)"}
      ]_vars

\* C9: a poll that finds the slot RxDone returns the received frame, the
\* timeout timer having fired or not; a poll returns Timeout only from its
\* timeout branch, after a swap that did not see RxDone.
C9_ResponseBeatsTimeout ==
    [][\A s \in Slots :
          /\ (fut_pc[s] = "registered" /\ fut_pc'[s] # "registered"
                  /\ status[s] = "RxDone") =>
                 /\ poll_result'[s] = "Ready"
                 /\ status'[s] = "RxProcessing"
                 /\ handle'[s] = "received"
          /\ poll_result'[s] = "Timeout" =>
                 (fut_pc[s] = "timer" /\ was[s] # "RxDone")]_vars

\* A poll has just returned the received frame of a future whose timeout
\* timer had fired.
C9_ReadyAfterExpiry ==
    \E s \in Slots :
        /\ poll_result[s] = "Ready"
        /\ handle[s] = "received"
        /\ timer_expired[s]

\* C10: a slot that is Sendable, or being sent, holds a completely composed
\* frame that nobody is writing: the EtherCAT header length equals
\* pdu_payload_len, no producer is composing in the slot and the RX driver
\* is not copying into its buffer.
C10_SendableIsComposed ==
    \A s \in Slots :
        status[s] \in {"Sendable", "Sending"} =>
            /\ hdr_len[s] = pdu_payload_len[s]
            /\ ~ProducerHolds(s)
            /\ ~RxHolds(s)


\* ------------------------------------------------------------------ C11
\* The number of claim attempts of the alloc_frame call that just returned:
\* how far it moved the cursor.
AllocAttempts == (frame_idx' - frame_idx + U8) % U8

\* C11: an alloc_frame call that finds every slot outside None makes 2N
\* claim attempts at most, changes no slot's state and returns
\* Err(SwapState); so does the call made while the frames of N successful
\* allocations are all still held.  No call makes more than 2N attempts.
C11_ExhaustedAllocFails ==
    [][ret'.op = "alloc_frame" =>
          /\ AllocAttempts \in 1 .. (2 * NumFrames)
          /\ ((\A s \in Slots : status[s] # "None")
                 \/ (\A s \in Slots : handle[s] # "none"))
                => /\ ret'.result = "Err(SwapState)"
                   /\ status' = status
                   /\ handle' = handle]_vars

\* The call after N allocations whose frames are all kept has failed.
C11_AllocFailedWithAllHeld ==
    /\ ret.op = "alloc_frame"
    /\ ret.result = "Err(SwapState)"
    /\ \A s \in Slots : handle[s] # "none" /\ status[s] # "None"

\* ------------------------------------------------------------------ C12
\* C12: once a Created frame into which nothing was pushed has been
\* dropped, its slot is None again, and the alloc_frame call that comes
\* next succeeds on that same slot.
C12_DropThenSameSlot ==
    [][(ret.op = "drop_created" /\ pdu_payload_len[ret.slot] = 0) =>
          /\ status[ret.slot] = "None"
          /\ ret'.op = "alloc_frame" =>
                (ret'.result = "Ok" /\ ret'.slot = ret.slot)]_vars

\* ------------------------------------------------------------------ C13
\* C13: reset leaves every slot None and both cursors at zero.  From then
\* on the cursor counts the alloc_frame calls: each of the first N
\* succeeds at its first attempt, on the slot under the cursor, and the
\* call made with all N frames kept fails.
C13_ResetThenNAllocs ==
    [][/\ ret'.op = "reset" =>
             /\ \A s \in Slots : status'[s] = "None"
             /\ frame_idx' = 0
             /\ pdu_idx' = 0
       /\ (ret'.op = "alloc_frame" /\ frame_idx < NumFrames) =>
             /\ ret'.result = "Ok"
             /\ ret'.slot = frame_idx
             /\ frame_idx' = frame_idx + 1
       /\ (ret'.op = "alloc_frame" /\ frame_idx = NumFrames
              /\ \A s \in Slots : handle[s] # "none") =>
             ret'.result = "Err(SwapState)"]_vars

\* ------------------------------------------------------------------ C14
\* C14: a try_split call returns the handles exactly when the store was
\* not split before it, and a split store stays split: of all the calls
\* made on a store the first one succeeds and no other does.
C14_SplitOnce ==
    [][/\ ret'.op = "try_split" =>
             /\ ret'.result = "Ok" <=> ~is_split
             /\ is_split'
       /\ is_split => is_split']_vars

\* A later call found the store split and got the error.
C14_SecondSplitRefused ==
    ret.op = "try_split" /\ ret.result = "Err" /\ is_split

\* ------------------------------------------------------------------ C15
\* The bytes taken by the PDUs written into a region.
RECURSIVE SumSizes(_)
SumSizes(hs) == IF hs = << >> THEN 0 ELSE Head(hs).size + SumSizes(Tail(hs))

\* The push call that just returned, successfully or not.
PushReturned ==
    ret'.op \in {"push_pdu", "push_pdu_slice_rest"}
PushSucceeded ==
    PushReturned /\ ret'.result \in {"Ok", "Ok(Some)"}

\* C15: while a frame is composed, pdu_payload_len is the sum of the
\* alloc_size of the handles the successful pushes returned and is at most
\* the length of the PDU region; a failed push changes neither.
C15_PayloadLenIsSum ==
    /\ [](\A s \in Slots : handle[s] = "created" =>
             /\ pdu_payload_len[s] = SumSizes(pdus[s])
             /\ pdu_payload_len[s] <= PduBufLen)
    /\ [][/\ PushSucceeded =>
                /\ pdu_payload_len'[ret'.slot] =
                      pdu_payload_len[ret'.slot] + ret'.alloc_size
                /\ pdus'[ret'.slot][Len(pdus'[ret'.slot])].size = ret'.alloc_size
                /\ Len(pdus'[ret'.slot]) = Len(pdus[ret'.slot]) + 1
          /\ (PushReturned /\ ~PushSucceeded) =>
                /\ pdu_payload_len' = pdu_payload_len
                /\ pdus' = pdus]_vars

\* Two pushes at least have succeeded, the region is full to the last
\* byte, and the push that just returned failed with TooLong.
C15_FullAfterMixedPushes ==
    \E s \in Slots :
        /\ handle[s] = "created"
        /\ Len(pdus[s]) >= 2
        /\ pdu_payload_len[s] = PduBufLen
        /\ ret.op = "push_pdu" /\ ret.result = "Err(TooLong)"

\* ------------------------------------------------------------------ C16
\* C16: of the PDUs pushed into the frame being composed, every header but
\* the last has more_follows set and the last has it clear; and no push
\* changes the length in a header written before it.
C16_MoreFollowsChain ==
    /\ [](\A s \in Slots : handle[s] = "created" =>
             \A k \in 1 .. Len(pdus[s]) :
                 PduFlags_unpack(pdus[s][k].flags).more_follows
                     = (k < Len(pdus[s])))
    /\ [][PushSucceeded =>
             \A k \in 1 .. Len(pdus[ret'.slot]) :
                 PduFlags_unpack(pdus'[ret'.slot][k].flags).length =
                     PduFlags_unpack(pdus[ret'.slot][k].flags).length]_vars

\* Three PDUs of three different lengths in one frame, the last one
\* pushed by push_pdu_slice_rest.
C16_ThreePdusChained ==
    \E s \in Slots :
        /\ handle[s] = "created"
        /\ Len(pdus[s]) = 3
        /\ pdus[s][1].size # pdus[s][2].size
        /\ pdus[s][2].size # pdus[s][3].size
        /\ pdus[s][1].size # pdus[s][3].size
        /\ ret.op = "push_pdu_slice_rest" /\ ret.result = "Ok(Some)"

\* ------------------------------------------------------------------ C17
\* C17: a push_pdu call with data of d bytes and len_override o, L the
\* larger of the two, returns TooLong exactly when fewer than L + 12 bytes
\* of the PDU region are left, and otherwise a handle with
\* alloc_size = L + 12 and index_in_frame = the number of PDUs pushed into
\* the frame before it.
C17_TooLongIffNoRoom ==
    [][ret'.op = "push_pdu" =>
          LET s == ret'.slot
              d == ret'.data_len
              o == ret'.len_override
              L == IF o > d THEN o ELSE d
              remaining == PduBufLen - pdu_payload_len[s]
          IN  /\ ret'.result \in {"Ok", "Err(TooLong)"}
              /\ ret'.result = "Err(TooLong)" <=> remaining < L + 12
              /\ ret'.result = "Ok" =>
                    /\ ret'.alloc_size = L + 12
                    /\ ret'.index_in_frame = Len(pdus[s])]_vars

\* A push whose len_override exceeds its data filled the region exactly,
\* as the third PDU of its frame.
C17_ExactFitWithOverride ==
    /\ ret.op = "push_pdu" /\ ret.result = "Ok"
    /\ ret.len_override > ret.data_len
    /\ ret.index_in_frame = 2
    /\ pdu_payload_len[ret.slot] = PduBufLen

\* ------------------------------------------------------------------ C18
\* C18: push_pdu_slice_rest on a slice of n bytes returns None when n = 0
\* or when 12 bytes or fewer of the PDU region are left, and then writes
\* nothing; otherwise it writes min(n, remaining - 12) bytes, returns that
\* count, which is at most n, and a handle with alloc_size = count + 12.
\* A call on a frame it has filled finds nothing left and returns None.
C18_SliceRestTakesWhatFits ==
    [][ret'.op = "push_pdu_slice_rest" =>
          LET s == ret'.slot
              n == ret'.len
              remaining == PduBufLen - pdu_payload_len[s]
              fits == IF n < remaining - 12 THEN n ELSE remaining - 12
          IN  IF n = 0 \/ remaining <= 12
              THEN /\ ret'.result = "Ok(None)"
                   /\ pdu_payload_len' = pdu_payload_len
                   /\ pdus' = pdus
              ELSE /\ ret'.result = "Ok(Some)"
                   /\ ret'.consumed = fits
                   /\ ret'.consumed <= n
                   /\ ret'.alloc_size = ret'.consumed + 12
                   /\ pdu_payload_len'[s] = pdu_payload_len[s] + fits + 12]_vars

\* After another PDU, a slice was cut short to what was left and filled
\* the region.
C18_SliceCutShort ==
    /\ ret.op = "push_pdu_slice_rest" /\ ret.result = "Ok(Some)"
    /\ 0 < ret.consumed /\ ret.consumed < ret.len
    /\ Len(pdus[ret.slot]) = 2
    /\ pdu_payload_len[ret.slot] = PduBufLen

\* ------------------------------------------------------------------ C19
\* C19: the first successful push into a frame sets first_pdu to the index
\* of its PDU, and no later push into the frame changes it: while the
\* frame is composed first_pdu is the sentinel as long as it is empty and
\* the index of the first PDU from then on.
C19_FirstPduSetOnce ==
    /\ [](\A s \in Slots : handle[s] = "created" =>
             first_pdu[s] = IF pdus[s] = << >> THEN FIRST_PDU_EMPTY
                            ELSE pdus[s][1].index)
    /\ [][PushSucceeded =>
             first_pdu'[ret'.slot] =
                 IF pdus[ret'.slot] = << >> THEN ret'.pdu_idx
                 ELSE first_pdu[ret'.slot]]_vars

\* A third PDU went into a frame after one push in between had failed and
\* used up an index; first_pdu is still the index of the first PDU written.
C19_ThirdPushKeepsFirst ==
    /\ ret.op \in {"push_pdu", "push_pdu_slice_rest"}
    /\ ret.result \in {"Ok", "Ok(Some)"}
    /\ ret.index_in_frame = 2
    /\ first_pdu[ret.slot] = pdus[ret.slot][1].index
    /\ first_pdu[ret.slot] = 0
    /\ ret.pdu_idx = 3

\* ------------------------------------------------------------------ C20
\* C20: send_blocking on the frame the TX driver has claimed.  When the
\* driver reports the frame's length as sent, the slot is Sent and the
\* length is returned; when it reports another count, the slot is Sendable
\* and PartialSend { len, sent } is returned; when it fails, the slot is
\* Sendable and its error is returned.  After either failure
\* next_sendable_frame can claim the frame again.
C20_SendOutcome ==
    [][ret'.op = "send_blocking" =>
          LET s == ret'.slot
              len == frame_len(s)
              sent == ret'.bytes_sent
          IN  /\ tx.pc = "sending" /\ tx.slot = s
              /\ (ret'.driver = "Ok" /\ sent = len) =>
                    /\ status'[s] = "Sent"
                    /\ ret'.result = "Ok" /\ ret'.sent = len
              /\ (ret'.driver = "Ok" /\ sent # len) =>
                    /\ status'[s] = "Sendable"
                    /\ ret'.result = "Err(PartialSend)"
                    /\ ret'.len = len /\ ret'.sent = sent
              /\ ret'.driver = "Err" =>
                    /\ status'[s] = "Sendable"
                    /\ ret'.result = "Err(driver)"
              /\ ret'.result # "Ok" =>
                    /\ swap_state(status'[s], "Sendable", "Sending").ok
                    /\ next_sendable_frame(status', exit_flag', 0) # -1]_vars

\* The driver reported one byte less than the frame: the call returned
\* PartialSend and the frame, still awaited by its future, is Sendable.
C20_PartialSendReleased ==
    /\ ret.op = "send_blocking" /\ ret.result = "Err(PartialSend)"
    /\ ret.sent = ret.len - 1
    /\ status[ret.slot] = "Sendable"
    /\ handle[ret.slot] = "fut"
    /\ tx.pc = "idle"

\* ------------------------------------------------------------------ C21
\* C21: while the exit flag is set, a next_sendable_frame call returns None
\* and claims nothing (every slot keeps its state, Sendable ones included),
\* a receive_frame call returns Ignored and leaves every slot as it is, and
\* the flag goes back to false only in PduTx::release or PduRx::release.
C21_ShutdownStopsDrivers ==
    /\ [][exit_flag /\ tx.pc = "idle"
             /\ (tx' # tx \/ ret'.op = "next_sendable_frame")
          => ret'.result = "None" /\ tx' = tx /\ status' = status]_vars
    /\ [][exit_flag /\ rx.pc = "idle" /\ (rx' # rx \/ rx_result' # "none")
          => rx_result' = "Ignored" /\ rx' = rx /\ slot_vars' = slot_vars
             /\ pdus' = pdus]_vars
    /\ [][exit_flag /\ ~exit_flag'
          => ret'.op \in {"PduTx::release", "PduRx::release"}]_vars

\* next_sendable_frame has just returned None with the flag set and a
\* Sendable frame waiting.
C21_SendableLeftAtShutdown ==
    /\ exit_flag
    /\ ret.op = "next_sendable_frame"
    /\ \E s \in Slots : status[s] = "Sendable"

\* ------------------------------------------------------------------ C22
\* C22: receive_frame called with a frame that is not EtherCAT, or whose
\* source address is the main device's own, returns Ignored and leaves
\* every slot's state and buffer as they are, whatever its first PDU index.
C22_ForeignFrameIgnored ==
    [][ret'.op = "receive_frame"
         /\ (ret'.frame.ethertype # ETHERCAT_ETHERTYPE
             \/ ret'.frame.src_addr = MAINDEVICE_ADDR)
       => rx_result' = "Ignored" /\ rx' = rx /\ slot_vars' = slot_vars
          /\ pdus' = pdus]_vars

\* The main device's own EtherCAT frame came back while its slot was Sent,
\* and was ignored although its first PDU index is that of the slot.
C22_OwnEchoOfSentFrameIgnored ==
    /\ ~exit_flag
    /\ ret.op = "receive_frame"
    /\ rx_result = "Ignored"
    /\ ret.frame.ethertype = ETHERCAT_ETHERTYPE
    /\ ret.frame.src_addr = MAINDEVICE_ADDR
    /\ \E s \in Slots : status[s] = "Sent" /\ first_pdu[s] = ret.frame.idx

\* ------------------------------------------------------------------ C23
\* The bytes of the PDU region from offset a up to, not including, b.
Range(a, b) == a .. (b - 1)

C24_HeaderRoundTrip ==
    /\ fh.op \in {"pack", "unpack"} =>
          fh.bytes = <<(fh.len + 4096) % 256, (fh.len + 4096) \div 256>>
    /\ fh.op = "unpack" =>
          fh.header = [result |-> "Ok", payload_len |-> fh.len, protocol |-> 1]

\* The header of test pdu_header, unpacked again: 0x28 as bytes 0x28 0x10.
C24_Header0x28 ==
    /\ fh.op = "unpack"
    /\ fh.len = 40
    /\ fh.bytes = <<40, 16>>
    /\ fh.header.payload_len = 40

\* ------------------------------------------------------------------ C26
\* C26: assign_next_downstream_port gives the child the first port, of the
\* four array positions taken in order from the one after the parent's
\* entry port and wrapping around once, that is active and has no
\* downstream device yet, whichever ports are active and wherever the
\* entry port is.
C26_FirstFreePortAfterEntry ==
    [][ret'.op = "assign_next_downstream_port" =>
          LET ports == subdevices[1].ports
              e == Port_index(entry_port(ports))
              at(j) == ((e + j) % 4) + 1
              free == {j \in 1 .. 4 : /\ ports[at(j)].active
                                      /\ ports[at(j)].downstream_to = 0}
          IN  /\ free = {} => ret'.result = -1
              /\ free # {} =>
                     ret'.result =
                         ports[at(CHOOSE j \in free : \A m \in free : j <= m)].number]_vars

\* ------------------------------------------------------------------ C25
\* C25: the first device has no parent; any other device i has the device
\* p just before it as parent when p is not a LineEnd, and the nearest
\* Fork or Cross before p when p is a LineEnd; with no such junction the
\* call fails with Topology.
C25_ParentOfEachDevice ==
    [][ret'.op = "assign_parent_relationships" =>
          LET n == Len(subdevices)
              topo(j) == topology(subdevices[j].ports)
              junctions(i) == {j \in 1 .. (i - 2) : topo(j) \in {"Fork", "Cross"}}
              orphans == {i \in 2 .. n : topo(i - 1) = "LineEnd" /\ junctions(i) = {}}
              parent(i) ==
                  IF i = 1 THEN -1
                  ELSE IF topo(i - 1) # "LineEnd" THEN subdevices[i - 1].index
                  ELSE subdevices[CHOOSE j \in junctions(i) :
                                      \A m \in junctions(i) : m <= j].index
          IN  /\ ret'.result = "Err(Topology)" <=> orphans # {}
              /\ \A i \in 1 .. n :
                     (\A j \in orphans : i < j) =>
                         subdevices'[i].parent_index = parent(i)]_vars

\* A list of three was accepted in which the third device follows a
\* LineEnd and has the junction at the head of the list as its parent.
C25_ParentIsJunctionBeforeLineEnd ==
    /\ ret.op = "assign_parent_relationships"
    /\ ret.result = "Ok"
    /\ Len(subdevices) = 3
    /\ topology(subdevices[2].ports) = "LineEnd"
    /\ subdevices[2].parent_index = 0
    /\ subdevices[3].parent_index = 0

\* ------------------------------------------------------------------ C27
\* C27: once assign_parent_relationships has returned, the propagation
\* delay of every DC-capable device that has a parent is at least the
\* propagation delay of that parent.
C27_DelayNotBelowParent ==
    [][ret'.op = "assign_parent_relationships" =>
          \A i \in 1 .. Len(subdevices') :
              (subdevices'[i].dc_support /\ subdevices'[i].parent_index # -1) =>
                  \A j \in 1 .. Len(subdevices') :
                      subdevices'[j].index = subdevices'[i].parent_index =>
                          u32_le(subdevices'[j].propagation_delay,
                                 subdevices'[i].propagation_delay)]_vars

\* A list of three DC-capable devices in a line was accepted; the second
\* has a propagation delay above zero and the third, its child, a larger
\* one.
C27_DelayGrowsAlongLine ==
    /\ ret.op = "assign_parent_relationships"
    /\ ret.result = "Ok"
    /\ Len(subdevices) = 3
    /\ \A i \in 1 .. 3 : subdevices[i].dc_support
    /\ subdevices[2].parent_index = 0
    /\ subdevices[3].parent_index = 1
    /\ u32_lt(u32(0), subdevices[2].propagation_delay)
    /\ u32_lt(subdevices[2].propagation_delay, subdevices[3].propagation_delay)

\* ------------------------------------------------------------------ C28
\* C28: on the five devices of the fork test (EK1100, EK1122, EL9560,
\* EK1914, EL1008, with the test's receive times)
\* assign_parent_relationships gives the parents None, 0, 1, 0, 3, the
\* propagation delays 0, 145, 300, 1085, 1240 ns, and the downstream
\* ports EK1100 port 1 -> device 1 and port 2 -> device 3, EK1122 port 2
\* -> device 2, EK1914 port 1 -> device 4, and no other.
C28_ForkTestResult ==
    [][(ret'.op = "assign_parent_relationships" /\ subdevices = ForkTest) =>
          /\ ret'.result = "Ok"
          /\ [i \in 1 .. 5 |-> subdevices'[i].parent_index] = <<-1, 0, 1, 0, 3>>
          /\ [i \in 1 .. 5 |-> subdevices'[i].propagation_delay] =
                 <<u32(0), u32(145), u32(300), u32(1085), u32(1240)>>
          /\ \A i \in 1 .. 5 :
                 {<<subdevices'[i].ports[k].number,
                    subdevices'[i].ports[k].downstream_to>> :
                      k \in {j \in 1 .. 4 :
                                subdevices'[i].ports[j].downstream_to # 0}} =
                     <<{<<1, 1>>, <<2, 3>>}, {<<2, 2>>}, {}, {<<1, 4>>}, {}>>[i]]_vars

\* The call on the fork test list has returned: the list holds the five
\* devices with the test's receive times and the last of them has a
\* parent.
C28_ForkTestAssigned ==
    /\ ret.op = "assign_parent_relationships"
    /\ Len(subdevices) = 5
    /\ \A i \in 1 .. 5 :
           \A k \in 1 .. 4 :
               /\ subdevices[i].ports[k].active = ForkTest[i].ports[k].active
               /\ subdevices[i].ports[k].dc_receive_time =
                      ForkTest[i].ports[k].dc_receive_time
    /\ subdevices[5].parent_index # -1

\* ------------------------------------------------------------------ C29
\* C29: the latch broadcast is checked against the number of DC-capable
\* devices: when it comes back with another working counter the call
\* fails with a working-counter error, which configure_dc returns without
\* having read any receive time.
C29_LatchWkcChecked ==
    [][(ret'.op = "single_pdu" /\ ret'.result # "Err(Timeout)"
          /\ ret'.cmd = "BWR"
          /\ ret'.wkc # num_subdevices_with_dc(subdevices)) =>
             /\ ret'.result = "Err(WorkingCounter)"
             /\ dc'.pc = "return"
             /\ dc'.result = "Err(WorkingCounter)"]_vars

C40_TimeToLastPortIsTotal ==
    [][ret'.op = "propagation_time_to" =>
          ret'.result = total_propagation_time(subdevices[1].ports)]_vars

\* ------------------------------------------------------------------ C39
\* C39: when assign_parent_relationships has accepted a list, on every
\* device the ports with a downstream device are open, hold different
\* devices and are not the device's entry port, and the index of every
\* device with a parent stands on exactly one port of that parent and on
\* no port of any other device.
C39_DownstreamPortsWellFormed ==
    [][(ret'.op = "assign_parent_relationships" /\ ret'.result = "Ok") =>
          LET subs == subdevices'
              n == Len(subs)
              set(i) == {k \in 1 .. 4 : subs[i].ports[k].downstream_to # 0}
              holds(i, k, c) == subs[i].ports[k].downstream_to = subs[c].index
          IN  /\ \A i \in 1 .. n : \A k \in set(i) :
                     /\ subs[i].ports[k].active
                     /\ subs[i].ports[k].number # entry_port(subs[i].ports).number
                     /\ \A m \in set(i) :
                            m # k => subs[i].ports[m].downstream_to #
                                         subs[i].ports[k].downstream_to
              /\ \A c \in 1 .. n :
                     subs[c].parent_index # -1 =>
                         \A i \in 1 .. n :
                             Cardinality({k \in 1 .. 4 : holds(i, k, c)}) =
                                 IF subs[i].index = subs[c].parent_index
                                 THEN 1 ELSE 0]_vars

\* ------------------------------------------------------------------ C37
\* C37: a push_pdu or push_pdu_slice_rest call that adds no PDU (TooLong,
\* or None) changes nothing: pdu_payload_len, first_pdu, the bytes of the
\* PDU region, the flags of the PDUs already there and the shared PDU
\* index counter are what they were before the call.
C37_FailedPushChangesNothing ==
    [][(/\ ret'.op \in {"push_pdu", "push_pdu_slice_rest"}
        /\ ret'.result \in {"Err(TooLong)", "Ok(None)"}) =>
          /\ pdu_payload_len' = pdu_payload_len
          /\ first_pdu' = first_pdu
          /\ buf' = buf
          /\ dirty' = dirty
          /\ pdus' = pdus
          /\ pdu_idx' = pdu_idx]_vars

\* C38: when receive_frame returns an error (no slot for the index, the
\* slot not in Sent, a payload longer than the slot's PDU region, the frame
\* not marked received), the call has left no slot changed: no slot is in
\* RxBusy when it returns.
C38_FailedReceiveLeavesNoSlotBusy ==
    [][rx_result' \in {"Err(Decode)", "Err(InvalidIndex)", "Err(Internal)",
                       "Err(InvalidFrameState)"} =>
          \A s \in Slots : status'[s] # "RxBusy"]_vars

C35_LateResponseNotAccepted ==
    [][\A s \in Slots :
          (/\ status[s] = "RxBusy"
           /\ status'[s] = "RxDone"
           /\ first_pdu[s] # FIRST_PDU_EMPTY) =>
              rx.idx = first_pdu[s]]_vars

\* C34: with every party kept going, a slot that has left None returns to
\* None: no slot stays outside None for ever.
C34_SlotReturnsToIdle ==
    \A s \in Slots : [](status[s] # "None" => <>(status[s] = "None"))

\* The bit at which field k of a layout starts: the widths and the skips
\* of the fields before it that are on the wire, and its own pre_skip.
RECURSIVE bits_before(_, _)
bits_before(fields, k) ==
    IF k = 0 THEN 0
    ELSE bits_before(fields, k - 1)
         + (IF fields[k].skip \/ fields[k].width = NoWidth THEN 0
            ELSE fields[k].pre_skip + fields[k].width + fields[k].post_skip)

first_bit(fields, k) == bits_before(fields, k - 1) + fields[k].pre_skip
end_bit(fields, k) == first_bit(fields, k) + fields[k].width

\* The rules of a struct layout, on the fields that are on the wire.
LayoutRules(width, fields) ==
    /\ \A k \in DOMAIN fields : ~fields[k].skip => fields[k].width # NoWidth
    /\ \A k \in DOMAIN fields :
          (~fields[k].skip /\ fields[k].width >= 8) =>
              /\ first_bit(fields, k) % 8 = 0
              /\ end_bit(fields, k) % 8 = 0
    /\ \A k \in DOMAIN fields :
          (~fields[k].skip /\ fields[k].width < 8) =>
              first_bit(fields, k) \div 8 = (end_bit(fields, k) - 1) \div 8
    /\ bits_before(fields, Len(fields)) = width

\* C32: the derive accepts a struct layout exactly when every field on the
\* wire declares a width, every field of a byte or more starts and ends on
\* a byte boundary, no shorter field crosses one, and the widths and skips
\* add up to the struct's width; it rejects every other layout.
C32_LayoutAcceptedIffRules ==
    codec.op = "parse_struct" =>
        (codec.meta.result = "Ok" <=> LayoutRules(codec.width, codec.fields))

\* The struct Fixed of the crate documentation is accepted.
C32_FixedAccepted ==
    /\ codec.op = "parse_struct"
    /\ codec.width = 16
    /\ codec.fields = <<Field([ty |-> "u8", width |-> 3], 0, 5, FALSE),
                        Field([ty |-> "u8", width |-> 8], 0, 0, FALSE)>>
    /\ codec.meta.result = "Ok"

\* What reading back a value gives: the value, with the default in the
\* place of every skipped field.
ReadBack(fields, value) ==
    [k \in DOMAIN fields |->
        IF fields[k].skip THEN field_default(fields[k].ty) ELSE value[k]]

\* C31: for a struct with an accepted layout and a value whose fields fit
\* their widths, the bytes written are those written into a zeroed target,
\* whatever the target held before, and reading them back gives the value,
\* skipped fields as their default.
C31_StructRoundTrip ==
    /\ codec.op \in {"pack", "unpack"} =>
          codec.bytes =
              struct_write(codec.meta, codec.value,
                           [i \in DOMAIN codec.target |-> 0])
    /\ codec.op = "unpack" =>
          codec.read = [result |-> "Ok",
                        value |-> ReadBack(codec.fields, codec.value)]

\* A struct of a 3-bit field, 5 skipped bits and a skipped field and a byte
\* is written over a target of 0xFF bytes and read back.
C31_BitsAndByteReadBack ==
    /\ codec.op = "unpack"
    /\ codec.fields = <<Field([ty |-> "u8", width |-> 3], 0, 5, FALSE),
                        Field([ty |-> "u8", width |-> 8], 0, 0, FALSE)>>
    /\ codec.value = <<7, 255>>
    /\ codec.target = <<255, 255>>
    /\ codec.bytes = <<7, 255>>
    /\ codec.read.result = "Ok"

\* The variants of an enum that a raw value names: by discriminant, by an
\* alternative.
Canonical(def, raw) ==
    {k \in DOMAIN def : ~def[k].catch_all /\ def[k].discriminant = raw}
Alternative(def, raw) ==
    {k \in DOMAIN def : ~def[k].catch_all /\ raw \in def[k].alternatives}

\* C33: reading an enum gives the variant whose discriminant is the raw
\* value, else the variant that lists it as an alternative, else the
\* catch-all holding exactly the raw value, else InvalidValue; writing a
\* variant gives its discriminant, never one of its alternatives.
C33_EnumReadWrite ==
    /\ codec.op = "enum_read" =>
          LET def == codec.def
              raw == codec.raw
          IN  IF Canonical(def, raw) # {}
              THEN /\ codec.read.result = "Ok"
                   /\ \E k \in Canonical(def, raw) :
                         codec.read.value = EnumValue(def[k].name, -1)
              ELSE IF Alternative(def, raw) # {}
              THEN /\ codec.read.result = "Ok"
                   /\ \E k \in Alternative(def, raw) :
                         codec.read.value = EnumValue(def[k].name, -1)
              ELSE IF \E k \in DOMAIN def : def[k].catch_all
              THEN /\ codec.read.result = "Ok"
                   /\ codec.read.value.held = raw
                   /\ \E k \in DOMAIN def :
                         def[k].catch_all /\ def[k].name = codec.read.value.name
              ELSE codec.read.result = "Err(InvalidValue)"
    /\ codec.op = "enum_write" =>
          \A k \in DOMAIN codec.def :
              (~codec.def[k].catch_all /\ codec.def[k].name = codec.value.name) =>
                  /\ codec.raw = codec.def[k].discriminant
                  /\ codec.raw \notin codec.def[k].alternatives

\* 0xaa read as OneByte is Unknown(0xaa), as in the crate documentation.
C33_UnknownHoldsRaw ==
    /\ codec.op = "enum_read"
    /\ codec.def = OneByte
    /\ codec.raw = 170
    /\ codec.read = [result |-> "Ok", value |-> EnumValue("Unknown", 170)]
====
